---------------------------- MODULE Spec2Model ----------------------------
(***************************************************************************)
(* Microbot ESP32 firmware: the chunked RGB565 expression player and the   *)
(* half-duplex hold-to-talk audio cycle (capture, upload, streamed         *)
(* response) that share one I2S port, driven by the cooperative loop().    *)
(*                                                                         *)
(* The firmware is single threaded.  Every C function is an operator from  *)
(* a state record to a state record, so that a handler is the composition  *)
(* of the calls it makes; an action commits the record a whole handler     *)
(* (one loop() tick, or one iteration of a blocking network loop inside    *)
(* sendAndReceive) produces.  `log` holds the hardware and library calls   *)
(* issued by the action that led to the current state, in program order.   *)
(***************************************************************************)
EXTENDS Integers, Sequences, FiniteSets, TLC

(***************************************************************************)
(* Program constants (CLIENT_CODE/microbot_esp32.ino).                     *)
(***************************************************************************)
SAMPLE_RATE == 16000
MAX_RECORD_TIME_MS == 10000
MIN_RECORD_TIME_MS == 500
MIN_RECORD_BYTES == 1000
EXPR_WIDTH == 240
EXPR_HEIGHT == 320
EXPR_FPS == 15
EXPR_CHUNK_LINES == 16
EXPR_CHUNK_SIZE == EXPR_WIDTH * EXPR_CHUNK_LINES * 2
IDLE_EXPRESSION_INTERVAL == 30000
I2S_READ_SAMPLES == 64
UPLOAD_CHUNK == 1024
STREAM_BUFFER == 2048
RECEIVE_TIMEOUT_MS == 30000
TOO_SHORT_DELAY_MS == 1000
SERVER_ERROR_DELAY_MS == 2000
IDLE_SCREEN_DELAY_MS == 2000
MS_PER_SECOND == 1000
\* mic_speaker_test.ino
BUS_SETTLE_MS == 50
DEBOUNCE_MS == 50
TEST_MAX_RECORD_TIME_MS == 5000
TEST_FALLBACK_SECONDS == 3
\* expression_player.h, expression_test.ino
EXPR_FRAME_WIDTH == 240
EXPR_FRAME_HEIGHT == 320
PLAYER_CHUNK_LINES == 20
PLAYER_CHUNK_SIZE == EXPR_FRAME_WIDTH * PLAYER_CHUNK_LINES * 2
PLAYER_DEFAULT_FPS == 15
TOUCH_DEBOUNCE_MS == 500

(***************************************************************************)
(* Bounds of the model.                                                    *)
(***************************************************************************)
\* millis() advances by nothing or by TimeStep between two reads of it
TimeStep == 10000
\* the value at which millis() is held: time stamps are kept relative to it
Epoch == 100000
\* the calls of the frame function that follow one load, when the engine is called directly
MaxCalls == 5
\* the microphone delivers no further samples to a capture that holds this many bytes
MaxCaptureBytes == 1152

Min(a, b) == IF a < b THEN a ELSE b

Max(a, b) == IF a > b THEN a ELSE b

\* the steps by which millis() advances between two reads of it
TimeSteps == {0, TimeStep}

\* the chunk of a frame, counted from 1, at which a storage read fails (0: none does)
FailChunks == {0, 3}

(***************************************************************************)
(* The text of a manifest: a sequence of lines, a line a sequence of       *)
(* characters.  The characters the parser tells apart are kept apart: the  *)
(* space, '#' and '='; a run of letters stands as one word and a decimal   *)
(* number, with its sign, as one number.                                   *)
(***************************************************************************)
Sp == [c |-> "space", word |-> "", number |-> 0]
Hash == [c |-> "#", word |-> "", number |-> 0]
Equals == [c |-> "=", word |-> "", number |-> 0]
Word(w) == [c |-> "word", word |-> w, number |-> 0]
Number(n) == [c |-> "number", word |-> "", number |-> n]

\* the line key=n
KeyValue(k, n) == << Word(k), Equals, Number(n) >>

\* String::trim(): white space at both ends is removed
RECURSIVE trim(_)
trim(l) ==
  IF l # << >> /\ Head(l) = Sp THEN trim(Tail(l))
  ELSE IF l # << >> /\ l[Len(l)] = Sp THEN trim(SubSeq(l, 1, Len(l) - 1))
  ELSE l

startsWith(l, ch) == l # << >> /\ l[1] = ch

\* String::indexOf(ch): the position of the first ch, counted from 0, or -1
indexOf(l, ch) ==
  IF \E i \in DOMAIN l : l[i] = ch
  THEN (CHOOSE i \in DOMAIN l : l[i] = ch /\ \A j \in 1 .. (i - 1) : l[j] # ch) - 1
  ELSE 0 - 1

\* String::substring(from, to): the characters from..to-1, positions counted from 0
substring(l, from, to) == SubSeq(l, from + 1, to)

\* String::toInt(): the number the text begins with, 0 if it begins with none
toInt(l) == IF l # << >> /\ l[1].c = "number" THEN l[1].number ELSE 0

(***************************************************************************)
(* The removable storage: a card is the sequence of clips found under      *)
(* /Expression, in the order of the scan.  A clip is a .bin file of `size` *)
(* bytes; beside it there may be a manifest named after the clip           *)
(* (<clip>_manifest.txt: hasManifest, manifest) and a manifest.txt in its  *)
(* directory (hasGeneric, generic), each given as its text.                *)
(***************************************************************************)
FrameBytes == EXPR_WIDTH * EXPR_HEIGHT * 2

\* a clip with no manifest.txt in its directory
Clip(size, hasManifest, manifest) ==
  [size |-> size, hasManifest |-> hasManifest, manifest |-> manifest,
   hasGeneric |-> FALSE, generic |-> << >>]

\* two full-screen frames, no manifest
PlainClip == Clip(2 * FrameBytes, FALSE, << >>)

\* two full-screen frames, played once
OnceClip ==
  Clip(2 * FrameBytes, TRUE,
       << KeyValue("fps", 10), KeyValue("frames", 2), KeyValue("loop", 0) >>)

\* two full-screen frames, the manifest gives no frame count
EndlessClip == Clip(2 * FrameBytes, TRUE, << KeyValue("fps", 10), KeyValue("loop", 1) >>)

\* two frames of 8 x 50 pixels, played once
SmallClip ==
  Clip(2 * (8 * 50 * 2), TRUE,
       << KeyValue("width", 8), KeyValue("height", 50), KeyValue("fps", 10),
          KeyValue("frames", 2), KeyValue("loop", 0) >>)

\* two full-screen frames and part of a third, no manifest
PartialClip == Clip(2 * FrameBytes + 100, FALSE, << >>)

\* the manifest gives fps=0
ZeroFpsClip ==
  Clip(2 * FrameBytes, TRUE,
       << KeyValue("fps", 0), KeyValue("frames", 2), KeyValue("loop", 1) >>)

\* the manifest gives a negative fps
NegativeFpsClip ==
  Clip(2 * FrameBytes, TRUE,
       << KeyValue("fps", 0 - 5), KeyValue("frames", 2), KeyValue("loop", 1) >>)

\* the manifest gives no fps and no frame count; played once
NoFpsClip == Clip(2 * FrameBytes, TRUE, << KeyValue("loop", 0) >>)

\* two full-screen frames; the manifest has a blank line, a line of spaces, a
\* comment that holds a key, a line without '=', an unknown key, keys and values
\* with spaces around them, a value that is no number, and keys given twice
NoisyClip ==
  Clip(2 * FrameBytes, TRUE,
       << << >>,
          << Sp, Sp >>,
          << Hash, Word("fps"), Equals, Number(30) >>,
          << Sp, Hash, Word("loop"), Equals, Number(0) >>,
          << Word("frames"), Sp, Number(7) >>,
          << Word("speed"), Equals, Number(9) >>,
          << Word("frames"), Equals, Number(1) >>,
          << Sp, Word("fps"), Sp, Equals, Sp, Number(12), Sp >>,
          << Word("fps"), Equals, Word("fast") >>,
          << Word("loop"), Equals, Number(1) >>,
          << Word("fps"), Equals, Number(20), Sp, Hash, Word("smooth") >>,
          << Sp, Word("frames"), Equals, Number(2) >>,
          << Word("loop"), Sp, Equals, Number(0) >> >>)

\* two full-screen frames, no manifest named after the clip, a manifest.txt in
\* its directory
GenericClip ==
  [size |-> 2 * FrameBytes, hasManifest |-> FALSE, manifest |-> << >>,
   hasGeneric |-> TRUE,
   generic |-> << KeyValue("fps", 5), KeyValue("frames", 1), KeyValue("loop", 0) >>]

\* two full-screen frames, both manifests, of different content
BothClip ==
  [size |-> 2 * FrameBytes, hasManifest |-> TRUE,
   manifest |-> << KeyValue("fps", 25), KeyValue("frames", 2), KeyValue("loop", 0) >>,
   hasGeneric |-> TRUE,
   generic |-> << KeyValue("fps", 5), KeyValue("frames", 1), KeyValue("loop", 1) >>]

\* two full-screen frames, the manifest counts one; played in a loop
LowCountClip ==
  Clip(2 * FrameBytes, TRUE,
       << KeyValue("fps", 10), KeyValue("frames", 1), KeyValue("loop", 1) >>)

\* two full-screen frames, the manifest counts five; played once
HighCountClip ==
  Clip(2 * FrameBytes, TRUE,
       << KeyValue("fps", 10), KeyValue("frames", 5), KeyValue("loop", 0) >>)

\* two frames of 320 x 240 pixels, played once
WideClip ==
  Clip(2 * (320 * 240 * 2), TRUE,
       << KeyValue("width", 320), KeyValue("height", 240), KeyValue("fps", 10),
          KeyValue("frames", 2), KeyValue("loop", 0) >>)

NoCard == << >>
MicrobotCard == << PlainClip, OnceClip >>
ExpressionCard == << EndlessClip, SmallClip, PlainClip, OnceClip >>
EngineCard ==
  << PlainClip, OnceClip, EndlessClip, SmallClip, PartialClip, ZeroFpsClip, NegativeFpsClip,
     NoFpsClip, NoisyClip, GenericClip, BothClip, LowCountClip, HighCountClip, WideClip >>

VARIABLES
  now,                  \* millis()
  touchPin,             \* level of TOUCH_PIN at its last digitalRead
  pc,                   \* where the single thread is: "loop", "headers", "stream"
  audioBuffer,          \* the block of heap it points to, 0 for nullptr
  audioBufferSize,
  audioDataSize,
  heap,                 \* sizes of the live malloc blocks of the capture engine
  isRecording,
  isPlaying,
  isPlayingExpression,
  isTouching,
  touchStartTime,
  numExpressions,
  expressionsLoaded,
  currentExpressionIndex,
  exprFile,             \* File handle: [open, clip, pos]
  exprTotalFrames,
  exprCurrentFrame,
  exprFps,
  exprLoop,
  lastFrameTime,
  lastIdleExprTime,
  i2s,                  \* I2S_NUM_0 driver: [installed, dir, bits, pins]
  client,               \* WiFiClient and the server behind it
  timeout,
  contentLength2,
  card,                 \* the clips on the SD card
  sketch,               \* the program the board runs
  recordStartTime,      \* mic_speaker_test.ino
  isProcessing,         \* mic_speaker_test.ino
  wasPressed,           \* mic_speaker_test.ino: the static of loop()
  lastTouchTime,        \* expression_test.ino
  player,               \* expression_test.ino: the ExpressionPlayer object
  log                   \* the calls the running handler has issued so far

vars == << now, touchPin, pc, audioBuffer, audioBufferSize, audioDataSize, heap,
           isRecording, isPlaying, isPlayingExpression, isTouching, touchStartTime,
           numExpressions, expressionsLoaded, currentExpressionIndex, exprFile,
           exprTotalFrames, exprCurrentFrame, exprFps, exprLoop, lastFrameTime,
           lastIdleExprTime, i2s, client, timeout, contentLength2, card, sketch,
           recordStartTime, isProcessing, wasPressed, lastTouchTime, player, log >>

\* the program state as one record, threaded through the calls of a handler
S ==
  [ now |-> now, touchPin |-> touchPin, pc |-> pc, audioBuffer |-> audioBuffer,
    audioBufferSize |-> audioBufferSize, audioDataSize |-> audioDataSize,
    heap |-> heap, isRecording |-> isRecording, isPlaying |-> isPlaying,
    isPlayingExpression |-> isPlayingExpression, isTouching |-> isTouching,
    touchStartTime |-> touchStartTime, numExpressions |-> numExpressions,
    expressionsLoaded |-> expressionsLoaded,
    currentExpressionIndex |-> currentExpressionIndex, exprFile |-> exprFile,
    exprTotalFrames |-> exprTotalFrames, exprCurrentFrame |-> exprCurrentFrame,
    exprFps |-> exprFps, exprLoop |-> exprLoop, lastFrameTime |-> lastFrameTime,
    lastIdleExprTime |-> lastIdleExprTime, i2s |-> i2s, client |-> client,
    timeout |-> timeout, contentLength2 |-> contentLength2, card |-> card,
    sketch |-> sketch,
    recordStartTime |-> recordStartTime, isProcessing |-> isProcessing,
    wasPressed |-> wasPressed, lastTouchTime |-> lastTouchTime, player |-> player,
    log |-> log ]

\* one call issued to the hardware or a library, as recorded in log
Ev(op, a, b, m) == [op |-> op, a |-> a, b |-> b, m |-> m]
Emit(s, op, a, b, m) == [s EXCEPT !.log = Append(@, Ev(op, a, b, m))]

\* delay(ms) returns after at least ms: the smallest time step that covers ms passes
delay(s, ms) == [s EXCEPT !.now = @ + ((ms + TimeStep - 1) \div TimeStep) * TimeStep]

\* now - since, for two readings of millis()
Elapsed(t, since) == t - since

(***************************************************************************)
(* Away from the wrap of millis() the comparisons of the firmware depend   *)
(* only on differences of readings, so a state is kept with millis()       *)
(* shifted back to Epoch and with every time stamp no older than the       *)
(* largest interval it is compared with.  The wrap is followed in SpecWrap.*)
(***************************************************************************)
TouchAgeCap == MAX_RECORD_TIME_MS
DebounceAgeCap == TOUCH_DEBOUNCE_MS + 1
FrameAgeCap == MS_PER_SECOND
IdleAgeCap == IDLE_EXPRESSION_INTERVAL + 1

Rebase(s) ==
  [s EXCEPT !.now = Epoch,
            !.touchStartTime = Epoch - Min(s.now - @, TouchAgeCap),
            !.lastFrameTime = Epoch - Min(s.now - @, FrameAgeCap),
            !.lastIdleExprTime = Epoch - Min(s.now - @, IdleAgeCap),
            !.recordStartTime = Epoch - Min(s.now - @, TouchAgeCap),
            !.lastTouchTime = Epoch - Min(s.now - @, DebounceAgeCap),
            !.timeout = Epoch + Max(@ - s.now, 0)]

Commit(u) ==
  \E s \in { Rebase(u) } :
  /\ now' = s.now
  /\ touchPin' = s.touchPin
  /\ pc' = s.pc
  /\ audioBuffer' = s.audioBuffer
  /\ audioBufferSize' = s.audioBufferSize
  /\ audioDataSize' = s.audioDataSize
  /\ heap' = s.heap
  /\ isRecording' = s.isRecording
  /\ isPlaying' = s.isPlaying
  /\ isPlayingExpression' = s.isPlayingExpression
  /\ isTouching' = s.isTouching
  /\ touchStartTime' = s.touchStartTime
  /\ numExpressions' = s.numExpressions
  /\ expressionsLoaded' = s.expressionsLoaded
  /\ currentExpressionIndex' = s.currentExpressionIndex
  /\ exprFile' = s.exprFile
  /\ exprTotalFrames' = s.exprTotalFrames
  /\ exprCurrentFrame' = s.exprCurrentFrame
  /\ exprFps' = s.exprFps
  /\ exprLoop' = s.exprLoop
  /\ lastFrameTime' = s.lastFrameTime
  /\ lastIdleExprTime' = s.lastIdleExprTime
  /\ i2s' = s.i2s
  /\ client' = s.client
  /\ timeout' = s.timeout
  /\ contentLength2' = s.contentLength2
  /\ card' = s.card
  /\ sketch' = s.sketch
  /\ recordStartTime' = s.recordStartTime
  /\ isProcessing' = s.isProcessing
  /\ wasPressed' = s.wasPressed
  /\ lastTouchTime' = s.lastTouchTime
  /\ player' = s.player
  /\ log' = s.log

(***************************************************************************)
(* The shared I2S port.                                                    *)
(***************************************************************************)
I2sNone == [installed |-> FALSE, dir |-> "NONE", bits |-> 0, pins |-> "NONE"]

BusMode(d) ==
  CASE ~d.installed -> "Idle"
    [] d.installed /\ d.dir = "RX" /\ d.bits = 32 /\ d.pins = "MIC" -> "CaptureActive"
    [] d.installed /\ d.dir = "TX" /\ d.bits = 16 /\ d.pins = "SPK" -> "PlaybackActive"
    [] OTHER -> "Partial"

i2s_driver_uninstall(s) ==
  [Emit(s, "i2s_driver_uninstall", 0, 0, BusMode(s.i2s)) EXCEPT !.i2s = I2sNone]

i2s_driver_install(s, dir, bits) ==
  [Emit(s, "i2s_driver_install", bits, 0, dir)
     EXCEPT !.i2s = [installed |-> TRUE, dir |-> dir, bits |-> bits, pins |-> "NONE"]]

i2s_set_pin(s, pins) ==
  [Emit(s, "i2s_set_pin", 0, 0, pins) EXCEPT !.i2s = [@ EXCEPT !.pins = pins]]

i2s_zero_dma_buffer(s) == Emit(s, "i2s_zero_dma_buffer", 0, 0, BusMode(s.i2s))

setupMicrophone_keepsDriver(s) ==
  i2s_zero_dma_buffer(i2s_set_pin(i2s_driver_install(s, "RX", 32), "MIC"))

setupMicrophone(s) ==
  i2s_zero_dma_buffer(i2s_set_pin(i2s_driver_install(i2s_driver_uninstall(s), "RX", 32), "MIC"))

setupSpeaker(s) ==
  i2s_zero_dma_buffer(i2s_set_pin(i2s_driver_install(i2s_driver_uninstall(s), "TX", 16), "SPK"))

\* a File object: the clip it reads, its position() and its size()
FileClosed == [open |-> FALSE, clip |-> 0, pos |-> 0, size |-> 0]

\* the object the constructor of ExpressionPlayer leaves
ExpressionPlayer ==
  [ binFile |-> FileClosed, isPlaying |-> FALSE, loop |-> TRUE,
    width |-> EXPR_FRAME_WIDTH, height |-> EXPR_FRAME_HEIGHT, fps |-> PLAYER_DEFAULT_FPS,
    totalFrames |-> 0, currentFrame |-> 0 ]

(***************************************************************************)
(* Expression playback (microbot_esp32.ino).                               *)
(***************************************************************************)
stopExpression_keepsPlaying(s) ==
  [s EXCEPT !.exprFile = FileClosed, !.exprCurrentFrame = 0]

stopExpression(s) ==
  [s EXCEPT !.exprFile = FileClosed,
            !.isPlayingExpression = FALSE,
            !.exprCurrentFrame = 0]

\* one line of a manifest as the loop of loadExpressionManifest takes it: skipped,
\* or a key and the number its value gives
SkippedLine == [skip |-> TRUE, key |-> << >>, val |-> 0]

\* line: the trimmed line, eq: the position of its '='
KeyAndValue(line, eq) ==
  IF eq < 0 THEN SkippedLine
  ELSE [skip |-> FALSE,
        key |-> trim(substring(line, 0, eq)),
        val |-> toInt(trim(substring(line, eq + 1, Len(line))))]

TrimmedLine(line) ==
  IF line = << >> \/ startsWith(line, Hash) THEN SkippedLine
  ELSE KeyAndValue(line, indexOf(line, Equals))

ManifestLine(text) == TrimmedLine(trim(text))

RECURSIVE ManifestLines(_, _, _)
ManifestLines(s, lines, i) ==
  IF i > Len(lines) THEN s
  ELSE LET l == ManifestLine(lines[i])
           key == l.key
           val == l.val
           s1 == CASE l.skip -> s
                   [] key = << Word("fps") >> -> [s EXCEPT !.exprFps = val]
                   [] key = << Word("frames") >> -> [s EXCEPT !.exprTotalFrames = val]
                   [] key = << Word("loop") >> -> [s EXCEPT !.exprLoop = (val # 0)]
                   [] OTHER -> s
       IN ManifestLines(s1, lines, i + 1)

loadExpressionManifest_keepsFields(s, c, sizeOk) ==
  IF ~s.card[c].hasManifest
  THEN IF sizeOk
       THEN [s EXCEPT !.exprTotalFrames = s.card[c].size \div FrameBytes]
       ELSE s
  ELSE ManifestLines(s, s.card[c].manifest, 1)

\* sizeOk: SD.open(binPath) for the size estimate succeeds
loadExpressionManifest(s, c, sizeOk) ==
  LET d == [s EXCEPT !.exprFps = EXPR_FPS, !.exprTotalFrames = 0, !.exprLoop = TRUE]
  IN IF ~s.card[c].hasManifest
     THEN IF sizeOk
          THEN [d EXCEPT !.exprTotalFrames = s.card[c].size \div FrameBytes]
          ELSE d
     ELSE ManifestLines(d, s.card[c].manifest, 1)

startExpression_keepsOldClip(s, c, openOk) ==
  LET s1 == loadExpressionManifest(s, c, openOk)
  IN IF ~openOk
     THEN Emit(s1, "startExpression", c, IF s.isRecording THEN 1 ELSE 0, "failed")
     ELSE Emit([s1 EXCEPT !.exprFile = [open |-> TRUE, clip |-> c, pos |-> 0,
                                          size |-> s1.card[c].size],
                          !.exprCurrentFrame = 0,
                          !.isPlayingExpression = TRUE,
                          !.lastFrameTime = s1.now],
               "startExpression", c, IF s.isRecording THEN 1 ELSE 0, "ok")

\* openOk: the SD.open calls on binPath succeed (the one of the size estimate too);
\* the event tells in b whether a capture was on when the clip was started
startExpression(s, c, openOk) ==
  LET s1 == loadExpressionManifest(stopExpression(s), c, openOk)
  IN IF ~openOk
     THEN Emit(s1, "startExpression", c, IF s.isRecording THEN 1 ELSE 0, "failed")
     ELSE Emit([s1 EXCEPT !.exprFile = [open |-> TRUE, clip |-> c, pos |-> 0,
                                          size |-> s1.card[c].size],
                          !.exprCurrentFrame = 0,
                          !.isPlayingExpression = TRUE,
                          !.lastFrameTime = s1.now],
               "startExpression", c, IF s.isRecording THEN 1 ELSE 0, "ok")

\* exprFile.read(exprChunkBuffer, n): the bytes read, 0 on an I/O error
FileRead(f, n, ioError) ==
  IF ioError THEN 0 ELSE Min(n, f.size - f.pos)

\* what a call of playExpressionFrame returns: ret, with the reason in m and
\* whether the engine is playing after the call
Return(s, ret, m) ==
  Emit(s, "playExpressionFrame.return", IF ret THEN 1 ELSE 0,
       IF s.isPlayingExpression THEN 1 ELSE 0, m)

\* the chunk loop reading the whole frame before it draws
ReadChunks_readAhead(s, y, failAt) ==
  LET n == (EXPR_HEIGHT + EXPR_CHUNK_LINES - 1) \div EXPR_CHUNK_LINES
      bytesToRead == EXPR_WIDTH * EXPR_CHUNK_LINES * 2
  IN IF s.exprFile.pos + n * bytesToRead > s.exprFile.size \/ failAt # 0
     THEN Return(stopExpression(Emit(s, "File.read", bytesToRead, 0, "")), FALSE, "read error")
     ELSE Return(
            [s EXCEPT !.exprCurrentFrame = @ + 1,
                      !.exprFile.pos = @ + n * bytesToRead,
                      !.log = @ \o [i \in 1 .. 2 * n |->
                                IF i <= n THEN Ev("File.read", bytesToRead, bytesToRead, "")
                                ELSE Ev("tft.pushImage", (i - n - 1) * EXPR_CHUNK_LINES,
                                        EXPR_CHUNK_LINES, "")]],
            TRUE, "")

RECURSIVE ReadChunks(_, _, _)
ReadChunks(s, y, failAt) ==
  IF y >= EXPR_HEIGHT
  THEN Return([s EXCEPT !.exprCurrentFrame = @ + 1], TRUE, "")
  ELSE LET linesToRead == Min(EXPR_CHUNK_LINES, EXPR_HEIGHT - y)
           bytesToRead == EXPR_WIDTH * linesToRead * 2
           bytesRead == FileRead(s.exprFile, bytesToRead, failAt = y \div EXPR_CHUNK_LINES + 1)
           s1 == Emit([s EXCEPT !.exprFile.pos = @ + bytesRead],
                      "File.read", bytesToRead, bytesRead, "")
       IN IF bytesRead # bytesToRead
          THEN Return(stopExpression(s1), FALSE, "read error")
          ELSE ReadChunks(Emit(s1, "tft.pushImage", y, linesToRead, ""),
                          y + EXPR_CHUNK_LINES, failAt)

rewind_keepsFrame(s, m) ==
  Emit([s EXCEPT !.exprFile.pos = 0], "File.seek", 0, 0, m)

\* exprFile.seek(0); exprCurrentFrame = 0;
rewind(s, m) ==
  Emit([s EXCEPT !.exprFile.pos = 0, !.exprCurrentFrame = 0], "File.seek", 0, 0, m)

\* the frame function with the frame count as its only end-of-clip test
playExpressionFrame_countOnly(s, failAt) ==
  LET e0 == Emit(s, "playExpressionFrame", s.exprCurrentFrame, s.exprFile.pos,
                 IF s.isRecording THEN "recording" ELSE "")
      e == Emit(e0, "frame.state", e0.exprTotalFrames, e0.exprFile.size,
                IF e0.exprLoop THEN "loop" ELSE "once")
      byCount == e.exprTotalFrames > 0 /\ e.exprCurrentFrame >= e.exprTotalFrames
  IN
  IF ~e0.exprFile.open \/ ~e0.isPlayingExpression
  THEN Return(e0, FALSE, "not playing")
  ELSE IF byCount /\ ~e.exprLoop
  THEN Return(stopExpression(e), FALSE, "finished")
  ELSE ReadChunks(IF byCount THEN rewind(e, "count") ELSE e, 0, failAt)

\* the events of a call: its entry with the frame index and the read position,
\* and, when the engine is playing, the frame count, the file size and the loop
\* flag it decides on
playExpressionFrame(s, failAt) ==
  LET e0 == Emit(s, "playExpressionFrame", s.exprCurrentFrame, s.exprFile.pos,
                 IF s.isRecording THEN "recording" ELSE "")
      e == Emit(e0, "frame.state", e0.exprTotalFrames, e0.exprFile.size,
                IF e0.exprLoop THEN "loop" ELSE "once")
  IN
  IF ~e0.exprFile.open \/ ~e0.isPlayingExpression
  THEN Return(e0, FALSE, "not playing")
  ELSE
    LET byCount == e.exprTotalFrames > 0 /\ e.exprCurrentFrame >= e.exprTotalFrames
        s1 == IF byCount /\ e.exprLoop THEN rewind(e, "count") ELSE e
    IN IF byCount /\ ~e.exprLoop
       THEN Return(stopExpression(e), FALSE, "finished")
       ELSE
         LET byPos == s1.exprFile.pos >= s1.exprFile.size
             s2 == IF byPos /\ s1.exprLoop THEN rewind(s1, "position") ELSE s1
         IN IF byPos /\ ~s1.exprLoop
            THEN Return(stopExpression(s1), FALSE, "finished")
            ELSE ReadChunks(s2, 0, failAt)

\* r: the draw of random() and the outcome of the SD.open calls of startExpression
playRandomExpression(s, r) ==
  IF ~s.expressionsLoaded \/ s.numExpressions = 0
  THEN Emit(s, "playRandomExpression", 0, 0, "no clips")
  ELSE startExpression(
         [Emit(s, "playRandomExpression", r.index, 0, "") EXCEPT !.currentExpressionIndex = r.index],
         r.index + 1, r.openOk)

\* the frame-interval check without the call of the frame function
updateExpression_neverDraws(s, failAt) == s

updateExpression(s, failAt) ==
  IF ~s.isPlayingExpression THEN s
  ELSE LET frameInterval == MS_PER_SECOND \div s.exprFps
       IN IF Elapsed(s.now, s.lastFrameTime) >= frameInterval
          THEN playExpressionFrame([s EXCEPT !.lastFrameTime = s.now], failAt)
          ELSE s


(***************************************************************************)
(* Audio capture (microbot_esp32.ino).                                     *)
(***************************************************************************)
\* malloc(size): the pointer is an index into heap, 0 is nullptr
malloc(s, size, ok) ==
  IF ok
  THEN [Emit(s, "malloc", size, Len(s.heap), "ok")
          EXCEPT !.heap = Append(@, size), !.audioBuffer = Len(s.heap) + 1]
  ELSE [Emit(s, "malloc", size, Len(s.heap), "failed") EXCEPT !.audioBuffer = 0]

freeAudioBuffer_leaks(s) ==
  [Emit(s, "free", s.audioBuffer, 0, "") EXCEPT !.audioBuffer = 0]

\* free(audioBuffer); audioBuffer = nullptr
freeAudioBuffer(s) ==
  LET p == s.audioBuffer
  IN [Emit(s, "free", p, 0, "")
        EXCEPT !.heap = IF p = 0 THEN @
                        ELSE SubSeq(@, 1, p - 1) \o SubSeq(@, p + 1, Len(@)),
               !.audioBuffer = 0]

startRecording_keepsBus(s, mallocOk) ==
  LET s1 == [s EXCEPT !.isRecording = TRUE, !.touchStartTime = s.now]
      s2 == stopExpression(Emit(s1, "startRecording", IF s.isPlayingExpression THEN 1 ELSE 0, 0, ""))
      maxSamples == (SAMPLE_RATE * MAX_RECORD_TIME_MS) \div 1000
      s3 == [s2 EXCEPT !.audioBufferSize = maxSamples * 2, !.audioDataSize = 0]
      s4 == malloc(s3, s3.audioBufferSize, mallocOk)
  IN IF s4.audioBuffer = 0 THEN [s4 EXCEPT !.isRecording = FALSE] ELSE s4

startRecording(s, mallocOk) ==
  LET s1 == [s EXCEPT !.isRecording = TRUE, !.touchStartTime = s.now]
      s2 == setupMicrophone(stopExpression(
              Emit(s1, "startRecording", IF s.isPlayingExpression THEN 1 ELSE 0, 0, "")))
      maxSamples == (SAMPLE_RATE * MAX_RECORD_TIME_MS) \div 1000
      s3 == [s2 EXCEPT !.audioBufferSize = maxSamples * 2, !.audioDataSize = 0]
      s4 == malloc(s3, s3.audioBufferSize, mallocOk)
  IN IF s4.audioBuffer = 0
     THEN [s4 EXCEPT !.isRecording = FALSE]
     ELSE s4

recordWhileHolding_readsFullBlock(s, pin, delivered) ==
  LET s0 == [s EXCEPT !.touchPin = pin]
      currentSamples == s0.audioDataSize \div 2
      bytesToRead == I2S_READ_SAMPLES * 4
      bytesRead == IF delivered THEN bytesToRead ELSE 0
      s1 == Emit(s0, "i2s_read", bytesToRead, bytesRead, BusMode(s0.i2s))
      s2 == IF bytesRead > 0
            THEN [Emit(s1, "store", currentSamples, currentSamples + bytesRead \div 4, "")
                    EXCEPT !.audioDataSize = @ + (bytesRead \div 4) * 2]
            ELSE s1
  IN IF ~pin \/ Elapsed(s0.now, s0.touchStartTime) >= MAX_RECORD_TIME_MS
     THEN [st |-> Emit(s0, "recordWhileHolding.return", 0, 0, "ended"), ret |-> FALSE]
     ELSE [st |-> Emit(s2, "recordWhileHolding.return", 1, 0, ""), ret |-> TRUE]

\* pin: digitalRead(TOUCH_PIN) == HIGH; delivered: i2s_read delivers what it is asked for
recordWhileHolding(s, pin, delivered) ==
  LET s0 == [s EXCEPT !.touchPin = pin]
      elapsed == Elapsed(s0.now, s0.touchStartTime)
      maxSamples == (SAMPLE_RATE * MAX_RECORD_TIME_MS) \div 1000
      currentSamples == s0.audioDataSize \div 2
  IN
  IF ~pin THEN [st |-> Emit(s0, "recordWhileHolding.return", 0, 0, "released"), ret |-> FALSE]
  ELSE IF elapsed >= MAX_RECORD_TIME_MS
  THEN [st |-> Emit(s0, "recordWhileHolding.return", 0, 0, "max time"), ret |-> FALSE]
  ELSE IF currentSamples < maxSamples
  THEN LET samplesToRead == Min(I2S_READ_SAMPLES, maxSamples - currentSamples)
           bytesToRead == samplesToRead * 4
           bytesRead == IF delivered THEN bytesToRead ELSE 0
           s1 == Emit(s0, "i2s_read", bytesToRead, bytesRead, BusMode(s0.i2s))
           samplesRead == bytesRead \div 4
           s2 == IF bytesRead > 0
                 THEN [Emit(s1, "store", currentSamples, currentSamples + samplesRead,
                            IF s1.audioBuffer = 0 THEN "nullptr" ELSE "")
                         EXCEPT !.audioDataSize = @ + samplesRead * 2]
                 ELSE s1
       IN [st |-> Emit(s2, "recordWhileHolding.return", 1, 0, ""), ret |-> TRUE]
  ELSE [st |-> Emit(s0, "recordWhileHolding.return", 1, 0, "full"), ret |-> TRUE]

(***************************************************************************)
(* Server communication (microbot_esp32.ino).                              *)
(***************************************************************************)
boundary == "----ESP32Microbot"
partHeader ==
  "--" \o boundary \o "\r\n"
  \o "Content-Disposition: form-data; name=\"audio\"; filename=\"audio.pcm\"\r\n"
  \o "Content-Type: audio/pcm\r\n\r\n"
partFooter == "\r\n--" \o boundary \o "--\r\n"

\* String(n): the decimal digits of n, most significant first
RECURSIVE DecimalDigits(_)
DecimalDigits(n) == IF n < 10 THEN << n >> ELSE Append(DecimalDigits(n \div 10), n % 10)

\* the number a server reads from the digits of a Content-Length line
RECURSIVE DecimalValue(_)
DecimalValue(d) ==
  IF Len(d) = 0 THEN 0 ELSE 10 * DecimalValue(SubSeq(d, 1, Len(d) - 1)) + d[Len(d)]

\* what the server may answer: its header lines, then `body` bytes of PCM
Responses ==
  << [lines |-> << [name |-> "status", val |-> 200],
                  [name |-> "X-Transcription", val |-> 0],
                  [name |-> "X-Response-Text", val |-> 0],
                  [name |-> "Content-Length", val |-> 3000],
                  [name |-> "blank", val |-> 0] >>,
     body |-> 3000],
    [lines |-> << [name |-> "status", val |-> 200],
                  [name |-> "Content-Length", val |-> 0],
                  [name |-> "blank", val |-> 0] >>,
     body |-> 0],
    [lines |-> << [name |-> "status", val |-> 500],
                  [name |-> "blank", val |-> 0] >>,
     body |-> 0] >>

ClientClosed ==
  [connected |-> FALSE, srvLines |-> << >>, srvBody |-> 0, rxLines |-> << >>, rxBody |-> 0]

\* what the network does between two polls of the client
NetEvents == {"none", "deliver", "close"}

Network(s, ev) ==
  LET c == s.client
  IN CASE ev = "deliver" /\ c.connected /\ c.srvLines # << >> ->
            [s EXCEPT !.client = [c EXCEPT !.rxLines = @ \o c.srvLines, !.srvLines = << >>]]
       [] ev = "deliver" /\ c.connected /\ c.srvLines = << >> /\ c.srvBody > 0 ->
            [s EXCEPT !.client = [c EXCEPT !.rxBody = @ + c.srvBody, !.srvBody = 0]]
       [] ev = "close" /\ c.connected ->
            [s EXCEPT !.client = [c EXCEPT !.connected = FALSE, !.srvLines = << >>,
                                           !.srvBody = 0]]
       [] OTHER -> s

\* client.available(): the bytes received and not yet read, those of header
\* lines that readStringUntil has not taken included: 2 for the blank line
\* (CR LF), 20 standing for the length of any other line
HeaderBytes(lines) == 2 * Len(SelectSeq(lines, LAMBDA l : l.name = "blank"))
                      + 20 * Len(SelectSeq(lines, LAMBDA l : l.name # "blank"))

available(c) == HeaderBytes(c.rxLines) + c.rxBody

\* client.read(buffer, size) and i2s_write of what it returned: the oldest unread
\* bytes, header lines left unread first; the read event tells how many bytes
\* were read and how many of them belong to header lines
StreamChunk(s) ==
  LET len == Min(available(s.client), STREAM_BUFFER)
      head == Min(len, HeaderBytes(s.client.rxLines))
  IN [Emit(Emit(s, "client.read", len, head, ""), "i2s_write", len, 0, BusMode(s.i2s))
        EXCEPT !.client.rxLines = IF head > 0 THEN << >> ELSE @,
               !.client.rxBody = @ - (len - head)]

SendChunks_fullChunks(s, sent) ==
  [s EXCEPT !.log = @ \o
     [i \in 1 .. (Max(s.audioDataSize - sent, 0) + UPLOAD_CHUNK - 1) \div UPLOAD_CHUNK |->
        Ev("client.write", sent + (i - 1) * UPLOAD_CHUNK, UPLOAD_CHUNK, "audio")]]

\* the loop that writes the captured bytes from offset `sent` on: write i starts
\* at sent + (i - 1) * UPLOAD_CHUNK and takes what is left, UPLOAD_CHUNK at most
SendChunks(s, sent) ==
  LET left == Max(s.audioDataSize - sent, 0)
      writes == (left + UPLOAD_CHUNK - 1) \div UPLOAD_CHUNK
  IN [s EXCEPT !.log = @ \o
        [i \in 1 .. writes |->
           Ev("client.write", sent + (i - 1) * UPLOAD_CHUNK,
              Min(UPLOAD_CHUNK, s.audioDataSize - (sent + (i - 1) * UPLOAD_CHUNK)), "audio")]]

\* sendAndReceive with playRandomExpression right after the buffer is freed
sendAndReceive_resumesFirst(s, c, r) ==
  IF ~c.ok
  THEN playRandomExpression(
         delay(freeAudioBuffer(Emit(s, "client.connect", 0, 0, "failed")), SERVER_ERROR_DELAY_MS), r)
  ELSE [playRandomExpression(
          freeAudioBuffer(Emit(SendChunks(Emit(s, "client.connect", 0, 0, "ok"), 0),
                               "client.print", 0, Len(partFooter), "part footer")), r)
          EXCEPT !.client = [connected |-> TRUE, srvLines |-> Responses[c.resp].lines,
                             srvBody |-> Responses[c.resp].body,
                             rxLines |-> << >>, rxBody |-> 0],
                 !.contentLength2 = 0,
                 !.timeout = s.now + RECEIVE_TIMEOUT_MS,
                 !.pc = "headers"]

\* sendAndReceive up to the wait for the response headers
\* connectOk: client.connect succeeds; resp: what the server will answer
sendAndReceive(s, c, r) ==
  IF ~c.ok
  THEN LET s1 == Emit(s, "client.connect", 0, 0, "failed")
           s2 == IF s1.audioBuffer # 0 THEN freeAudioBuffer(s1) ELSE s1
       IN playRandomExpression(delay(s2, SERVER_ERROR_DELAY_MS), r)
  ELSE
    LET s1 == [Emit(s, "client.connect", 0, 0, "ok")
                 EXCEPT !.client = [connected |-> TRUE, srvLines |-> Responses[c.resp].lines,
                                    srvBody |-> Responses[c.resp].body,
                                    rxLines |-> << >>, rxBody |-> 0]]
        contentLength == Len(partHeader) + s1.audioDataSize + Len(partFooter)
        s2 == Emit(s1, "client.print", DecimalValue(DecimalDigits(contentLength)), 0,
                   "Content-Length")
        s3 == Emit(s2, "client.print", 0, Len(partHeader), "part header")
        s4 == SendChunks(s3, 0)
        s5 == Emit(s4, "client.print", 0, Len(partFooter), "part footer")
        s6 == freeAudioBuffer(s5)
    IN [s6 EXCEPT !.contentLength2 = 0,
                  !.timeout = s6.now + RECEIVE_TIMEOUT_MS,
                  !.pc = "headers"]

stopRecording_byDurationOnly(s, c, r) ==
  LET elapsed == Elapsed(s.now, s.touchStartTime)
      s1 == [Emit(s, "stopRecording", elapsed, s.audioDataSize, "") EXCEPT !.isRecording = FALSE]
  IN IF elapsed < MIN_RECORD_TIME_MS
     THEN LET s3 == freeAudioBuffer(Emit(s1, "Too short!", 0, 0, ""))
          IN playRandomExpression(delay(s3, TOO_SHORT_DELAY_MS), r)
     ELSE sendAndReceive(s1, c, r)

stopRecording(s, c, r) ==
  LET elapsed == Elapsed(s.now, s.touchStartTime)
      s1 == [Emit(s, "stopRecording", elapsed, s.audioDataSize, "") EXCEPT !.isRecording = FALSE]
  IN IF elapsed < MIN_RECORD_TIME_MS \/ s1.audioDataSize < MIN_RECORD_BYTES
     THEN LET s2 == Emit(s1, "Too short!", 0, 0, "")
              s3 == IF s2.audioBuffer # 0 THEN freeAudioBuffer(s2) ELSE s2
          IN playRandomExpression(delay(s3, TOO_SHORT_DELAY_MS), r)
     ELSE sendAndReceive(s1, c, r)


(***************************************************************************)
(* mic_speaker_test.ino: the same capture and upload, held on the BOOT     *)
(* button, without display and expressions.                                *)
(***************************************************************************)
test_setupMicrophone(s) ==
  i2s_zero_dma_buffer(i2s_set_pin(
    i2s_driver_install(delay(i2s_driver_uninstall(s), BUS_SETTLE_MS), "RX", 32), "MIC"))

test_setupSpeaker(s) ==
  i2s_zero_dma_buffer(i2s_set_pin(
    i2s_driver_install(delay(i2s_driver_uninstall(s), BUS_SETTLE_MS), "TX", 16), "SPK"))

\* mallocOk, fallbackOk: the outcomes of the two malloc calls
test_startRecording(s, mallocOk, fallbackOk) ==
  LET s0 == Emit(s, "startRecording", 0, 0, "")
      s1 == IF s0.audioBuffer # 0 THEN freeAudioBuffer(s0) ELSE s0
      s2 == test_setupMicrophone(s1)
      maxSamples == (SAMPLE_RATE * TEST_MAX_RECORD_TIME_MS) \div 1000
      s3 == [s2 EXCEPT !.audioBufferSize = maxSamples * 2, !.audioDataSize = 0]
      s4 == malloc(s3, s3.audioBufferSize, mallocOk)
      s5 == IF s4.audioBuffer = 0
            THEN LET f == [s4 EXCEPT !.audioBufferSize = SAMPLE_RATE * TEST_FALLBACK_SECONDS * 2]
                 IN malloc(f, f.audioBufferSize, fallbackOk)
            ELSE s4
  IN IF s5.audioBuffer = 0
     THEN [s5 EXCEPT !.isRecording = FALSE]
     ELSE [s5 EXCEPT !.isRecording = TRUE, !.recordStartTime = s5.now]

\* maxTimeMs of recordWhileHolding: the time the allocated buffer holds
test_maxTimeMs(s) == ((s.audioBufferSize \div 2) * 1000) \div SAMPLE_RATE

\* pressed: digitalRead(BOOT_BUTTON) == LOW; delivered: i2s_read delivers what it is asked for
test_recordWhileHolding(s, pressed, delivered) ==
  LET elapsed == Elapsed(s.now, s.recordStartTime)
      maxSamples == s.audioBufferSize \div 2
      currentSamples == s.audioDataSize \div 2
  IN
  IF ~pressed THEN [st |-> Emit(s, "recordWhileHolding.return", 0, 0, "released"), ret |-> FALSE]
  ELSE IF elapsed >= test_maxTimeMs(s)
  THEN [st |-> Emit(s, "recordWhileHolding.return", 0, 0, "max time"), ret |-> FALSE]
  ELSE IF currentSamples < maxSamples
  THEN LET samplesToRead == Min(I2S_READ_SAMPLES, maxSamples - currentSamples)
           bytesToRead == samplesToRead * 4
           bytesRead == IF delivered THEN bytesToRead ELSE 0
           s1 == Emit(s, "i2s_read", bytesToRead, bytesRead, BusMode(s.i2s))
           samplesRead == bytesRead \div 4
           s2 == IF bytesRead > 0
                 THEN [Emit(s1, "store", currentSamples, currentSamples + samplesRead,
                            IF s1.audioBuffer = 0 THEN "nullptr" ELSE "")
                         EXCEPT !.audioDataSize = @ + samplesRead * 2]
                 ELSE s1
       IN [st |-> Emit(s2, "recordWhileHolding.return", 1, 0, ""), ret |-> TRUE]
  ELSE [st |-> Emit(s, "recordWhileHolding.return", 0, 0, "full"), ret |-> FALSE]

\* sendToServerAndPlay up to the wait for the response headers
test_sendToServerAndPlay(s, c) ==
  LET s0 == [s EXCEPT !.isProcessing = TRUE]
  IN
  IF ~c.ok
  THEN LET s1 == Emit(s0, "client.connect", 0, 0, "failed")
           s2 == IF s1.audioBuffer # 0 THEN freeAudioBuffer(s1) ELSE s1
       IN [s2 EXCEPT !.isProcessing = FALSE]
  ELSE
    LET s1 == [Emit(s0, "client.connect", 0, 0, "ok")
                 EXCEPT !.client = [connected |-> TRUE, srvLines |-> Responses[c.resp].lines,
                                    srvBody |-> Responses[c.resp].body,
                                    rxLines |-> << >>, rxBody |-> 0]]
        contentLength == Len(partHeader) + s1.audioDataSize + Len(partFooter)
        s2 == Emit(s1, "client.print", DecimalValue(DecimalDigits(contentLength)), 0,
                   "Content-Length")
        s3 == Emit(s2, "client.print", 0, Len(partHeader), "part header")
        s4 == SendChunks(s3, 0)
        s5 == Emit(s4, "client.print", 0, Len(partFooter), "part footer")
        s6 == freeAudioBuffer(s5)
    IN [s6 EXCEPT !.timeout = s6.now + RECEIVE_TIMEOUT_MS, !.pc = "test.headers"]

test_stopRecording(s, c) ==
  LET elapsed == Elapsed(s.now, s.recordStartTime)
      s1 == [Emit(s, "stopRecording", elapsed, s.audioDataSize, "") EXCEPT !.isRecording = FALSE]
  IN IF elapsed < MIN_RECORD_TIME_MS \/ s1.audioDataSize < MIN_RECORD_BYTES
     THEN LET s2 == Emit(s1, "Too short!", 0, 0, "")
          IN IF s2.audioBuffer # 0 THEN freeAudioBuffer(s2) ELSE s2
     ELSE test_sendToServerAndPlay(
            Emit(s1, "analyzeAudio", s1.audioDataSize \div 2, 0, ""), c)

(***************************************************************************)
(* expression_player.h: class ExpressionPlayer, and expression_test.ino,   *)
(* the sketch that drives it.                                              *)
(***************************************************************************)
ExpressionPlayer_unload(s) ==
  [s EXCEPT !.player.binFile = FileClosed, !.player.isPlaying = FALSE,
            !.player.currentFrame = 0]

\* the keys of a manifest change the fields they name, the others keep their values
RECURSIVE PlayerManifestLines(_, _, _)
PlayerManifestLines(s, lines, i) ==
  IF i > Len(lines) THEN s
  ELSE LET l == ManifestLine(lines[i])
           key == l.key
           val == l.val
           s1 == CASE l.skip -> s
                   [] key = << Word("width") >> -> [s EXCEPT !.player.width = val]
                   [] key = << Word("height") >> -> [s EXCEPT !.player.height = val]
                   [] key = << Word("fps") >> -> [s EXCEPT !.player.fps = val]
                   [] key = << Word("frames") >> -> [s EXCEPT !.player.totalFrames = val]
                   [] key = << Word("loop") >> -> [s EXCEPT !.player.loop = (val # 0)]
                   [] OTHER -> s
       IN PlayerManifestLines(s1, lines, i + 1)

\* sizeOk: SD.open(binPath) for the size estimate succeeds
ExpressionPlayer_loadManifest(s, c, sizeOk) ==
  IF ~s.card[c].hasManifest /\ ~s.card[c].hasGeneric
  THEN LET d == [s EXCEPT !.player.width = EXPR_FRAME_WIDTH,
                          !.player.height = EXPR_FRAME_HEIGHT,
                          !.player.fps = PLAYER_DEFAULT_FPS, !.player.loop = TRUE]
       IN IF sizeOk
          THEN [d EXCEPT !.player.totalFrames = s.card[c].size \div (d.player.width * d.player.height * 2)]
          ELSE d
  ELSE PlayerManifestLines(s, IF s.card[c].hasManifest THEN s.card[c].manifest
                                 ELSE s.card[c].generic, 1)

\* load(binPath) and what it returns
ExpressionPlayer_load(s, c, openOk) ==
  LET s1 == ExpressionPlayer_loadManifest(ExpressionPlayer_unload(s), c, openOk)
  IN IF ~openOk
     THEN [st |-> Emit(s1, "load", c, 0, "failed"), ret |-> FALSE]
     ELSE [st |-> Emit([s1 EXCEPT !.player.binFile = [open |-> TRUE, clip |-> c, pos |-> 0,
                                                      size |-> s1.card[c].size],
                                  !.player.currentFrame = 0,
                                  !.player.isPlaying = TRUE],
                       "load", c, 0, "ok"),
           ret |-> TRUE]

\* what a call of displayFrame returns: ret, with the reason in m and whether
\* the player is playing after the call
PlayerReturn(s, ret, m) ==
  [st |-> Emit(s, "displayFrame.return", IF ret THEN 1 ELSE 0,
               IF s.player.isPlaying THEN 1 ELSE 0, m),
   ret |-> ret]

PlayerReadChunks_fullChunks(s, y, failAt) ==
  LET n == (s.player.height + PLAYER_CHUNK_LINES - 1) \div PLAYER_CHUNK_LINES
      bytesToRead == s.player.width * PLAYER_CHUNK_LINES * 2
  IN IF s.player.binFile.pos + n * bytesToRead > s.player.binFile.size \/ failAt # 0
     THEN PlayerReturn(Emit(s, "File.read", bytesToRead, 0, ""), FALSE, "read error")
     ELSE PlayerReturn(
            [s EXCEPT !.player.currentFrame = @ + 1,
                      !.player.binFile.pos = @ + n * bytesToRead,
                      !.log = @ \o [i \in 1 .. 2 * n |->
                                IF i % 2 = 1 THEN Ev("File.read", bytesToRead, bytesToRead, "")
                                ELSE Ev("tft.pushImage", (i \div 2 - 1) * PLAYER_CHUNK_LINES,
                                        PLAYER_CHUNK_LINES, "")]],
            TRUE, "")

RECURSIVE PlayerReadChunks(_, _, _)
PlayerReadChunks(s, y, failAt) ==
  IF y >= s.player.height
  THEN PlayerReturn([s EXCEPT !.player.currentFrame = @ + 1], TRUE, "")
  ELSE LET linesPerChunk == PLAYER_CHUNK_LINES
           linesToRead == Min(linesPerChunk, s.player.height - y)
           bytesToRead == s.player.width * linesToRead * 2
           bytesRead == FileRead(s.player.binFile, bytesToRead, failAt = y \div linesPerChunk + 1)
           s1 == Emit([s EXCEPT !.player.binFile.pos = @ + bytesRead],
                      "File.read", bytesToRead, bytesRead, "")
       IN IF bytesRead # bytesToRead
          THEN PlayerReturn(s1, FALSE, "read error")
          ELSE PlayerReadChunks(Emit(s1, "tft.pushImage", y, linesToRead, ""),
                                y + linesPerChunk, failAt)

\* _binFile.seek(0); _currentFrame = 0;
PlayerRewind(s, m) ==
  Emit([s EXCEPT !.player.binFile.pos = 0, !.player.currentFrame = 0], "File.seek", 0, 0, m)

\* displayFrame() and what it returns; the events are those of playExpressionFrame
ExpressionPlayer_displayFrame(s, failAt) ==
  LET e0 == Emit(s, "displayFrame", s.player.currentFrame, s.player.binFile.pos, "")
      e == Emit(e0, "frame.state", e0.player.totalFrames, e0.player.binFile.size,
                IF e0.player.loop THEN "loop" ELSE "once")
  IN
  IF ~e0.player.binFile.open \/ ~e0.player.isPlaying
  THEN PlayerReturn(e0, FALSE, "not playing")
  ELSE
    LET byCount == e.player.totalFrames > 0 /\ e.player.currentFrame >= e.player.totalFrames
        s1 == IF byCount /\ e.player.loop THEN PlayerRewind(e, "count") ELSE e
    IN IF byCount /\ ~e.player.loop
       THEN PlayerReturn([e EXCEPT !.player.isPlaying = FALSE], FALSE, "finished")
       ELSE
         LET byPos == s1.player.binFile.pos >= s1.player.binFile.size
             s2 == IF byPos /\ s1.player.loop THEN PlayerRewind(s1, "position") ELSE s1
         IN IF byPos /\ ~s1.player.loop
            THEN PlayerReturn([s1 EXCEPT !.player.isPlaying = FALSE], FALSE, "finished")
            ELSE PlayerReadChunks(s2, 0, failAt)

ExpressionPlayer_playFrame(s, failAt) == ExpressionPlayer_displayFrame(s, failAt)

ExpressionPlayer_getFrameInterval(s) == MS_PER_SECOND \div s.player.fps

\* index counts from 0, the clips of the card from 1
playExpression(s, index, openOk) ==
  IF index < 0 \/ index >= s.numExpressions THEN s
  ELSE LET l == ExpressionPlayer_load(Emit(s, "playExpression", index, 0, ""), index + 1, openOk)
       IN IF l.ret
          THEN [l.st EXCEPT !.currentExpressionIndex = index, !.lastFrameTime = l.st.now]
          ELSE Emit(l.st, "Load Error!", index, 0, "")

\* nextExpression without the wrap to the first clip
nextExpression_noWrap(s, openOk) ==
  IF s.numExpressions = 0 THEN s
  ELSE playExpression(s, s.currentExpressionIndex + 1, openOk)

nextExpression(s, openOk) ==
  IF s.numExpressions = 0 THEN s
  ELSE playExpression(s, (s.currentExpressionIndex + 1) % s.numExpressions, openOk)

\* the part of loop() that plays the frames
expression_test_frames(s, failAt, openOk) ==
  IF s.player.isPlaying
  THEN IF Elapsed(s.now, s.lastFrameTime) >= ExpressionPlayer_getFrameInterval(s)
       THEN LET f == ExpressionPlayer_playFrame([s EXCEPT !.lastFrameTime = s.now], failAt)
            IN IF ~f.ret
               THEN IF ~f.st.player.loop
                    THEN nextExpression(Emit(f.st, "Expression finished", 0, 0, ""), openOk)
                    ELSE Emit(f.st, "Expression finished", 0, 0, "")
               ELSE f.st
       ELSE s
  ELSE s

(***************************************************************************)
(* Inputs of a handler, drawn only where the handler consumes them.        *)
(***************************************************************************)
NoRand == [index |-> 0, openOk |-> TRUE]

\* the draws of random(0, numExpressions) and whether the clip drawn can be opened
RandSet(s, called) ==
  IF called /\ s.expressionsLoaded /\ s.numExpressions > 0
  THEN { [index |-> i, openOk |-> o] : i \in 0 .. (s.numExpressions - 1), o \in BOOLEAN }
  ELSE { NoRand }

\* stopRecording finds the capture too short
TooShort(s) ==
  Elapsed(s.now, s.touchStartTime) < MIN_RECORD_TIME_MS \/ s.audioDataSize < MIN_RECORD_BYTES

\* the outcomes of client.connect, and the answer of the server it reaches
ConnectSet(s) ==
  IF TooShort(s) THEN { [ok |-> FALSE, resp |-> 0] }
  ELSE { [ok |-> FALSE, resp |-> 0] } \cup { [ok |-> TRUE, resp |-> i] : i \in 1 .. Len(Responses) }

\* the inputs of stopRecording: c of ConnectSet, r of RandSet
StopSet(s) ==
  { [c |-> c, r |-> r] : c \in ConnectSet(s), r \in RandSet(s, TRUE) }
  \ { x \in [c : ConnectSet(s), r : RandSet(s, TRUE)] : x.c.ok /\ x.r # NoRand }

\* the read failures a call of updateExpression can meet
FailSet(s) ==
  IF s.isPlayingExpression /\ s.exprFps # 0
     /\ Elapsed(s.now, s.lastFrameTime) >= MS_PER_SECOND \div s.exprFps
  THEN FailChunks
  ELSE { 0 }

\* whether i2s_read delivers: nothing or all it is asked for, and only nothing
\* between the first MaxCaptureBytes of a buffer and its last
I2sReadSet(s) ==
  IF s.audioDataSize >= MaxCaptureBytes /\ s.audioDataSize + MaxCaptureBytes < s.audioBufferSize
  THEN { FALSE }
  ELSE BOOLEAN

\* the read failures a call of playFrame can meet
PlayerFailSet(s) ==
  IF s.player.isPlaying /\ s.player.fps # 0
     /\ Elapsed(s.now, s.lastFrameTime) >= MS_PER_SECOND \div s.player.fps
  THEN FailChunks
  ELSE { 0 }

test_ConnectSet(s) ==
  IF Elapsed(s.now, s.recordStartTime) < MIN_RECORD_TIME_MS \/ s.audioDataSize < MIN_RECORD_BYTES
  THEN { [ok |-> FALSE, resp |-> 0] }
  ELSE { [ok |-> FALSE, resp |-> 0] } \cup { [ok |-> TRUE, resp |-> i] : i \in 1 .. Len(Responses) }

\* time passes, then TOUCH_PIN is sampled; the log of a new handler starts empty
Begin(s, dt, pin) ==
  [s EXCEPT !.now = @ + dt, !.touchPin = pin, !.log = << >>]

\* an iteration of a blocking loop: its log starts with the time that has
\* passed since the iteration before
Poll(s, dt) == Emit(Begin(s, dt, s.touchPin), "millis", dt, 0, "")

(***************************************************************************)
(* loop(): the rest of a tick after the touch handling.  delay(1) is part  *)
(* of the time step of the next handler.                                   *)
(***************************************************************************)
\* the idle check without its second block
IdleCheck_intervalOnly(s, r1, r2) ==
  IF ~s.isTouching /\ ~s.isRecording /\ ~s.isPlaying
     /\ ~s.isPlayingExpression /\ s.expressionsLoaded /\ s.numExpressions > 0
     /\ Elapsed(s.now, s.lastIdleExprTime) > IDLE_EXPRESSION_INTERVAL
  THEN [playRandomExpression(Emit(s, "idle interval", 0, 0, ""), r1)
          EXCEPT !.lastIdleExprTime = s.now]
  ELSE s

IdleCheck(s, r1, r2) ==
  IF ~s.isTouching /\ ~s.isRecording /\ ~s.isPlaying
  THEN LET t == s.now
           s1 == IF ~s.isPlayingExpression /\ s.expressionsLoaded /\ s.numExpressions > 0
                    /\ Elapsed(t, s.lastIdleExprTime) > IDLE_EXPRESSION_INTERVAL
                 THEN [playRandomExpression(Emit(s, "idle interval", 0, 0, ""), r1)
                         EXCEPT !.lastIdleExprTime = t]
                 ELSE s
       IN IF ~s1.isPlayingExpression /\ s1.expressionsLoaded
          THEN playRandomExpression(
                 delay(Emit(s1, "idle screen", 0, 0, ""), IDLE_SCREEN_DELAY_MS), r2)
          ELSE s1
  ELSE s

IdleFirst(s) ==
  /\ ~s.isTouching /\ ~s.isRecording /\ ~s.isPlaying
  /\ ~s.isPlayingExpression /\ s.expressionsLoaded /\ s.numExpressions > 0
  /\ Elapsed(s.now, s.lastIdleExprTime) > IDLE_EXPRESSION_INTERVAL

IdleSecond(s) ==
  /\ ~s.isTouching /\ ~s.isRecording /\ ~s.isPlaying
  /\ ~s.isPlayingExpression /\ s.expressionsLoaded

\* the rest of a tick with the idle check ahead of the frame-interval check
LoopTail_idleFirst(u) ==
  \E s \in { u } :
  \E failAt \in FailSet(s) :
  \E s0 \in { Emit(s, "idle check", 0, 0, "") } :
  \E r1 \in RandSet(s0, IdleFirst(s0)) :
  \E r2 \in RandSet(s0, IdleSecond(s0) /\ (~IdleFirst(s0) \/ ~r1.openOk)) :
  \E s1 \in { IdleCheck(s0, r1, r2) } :
    Commit(IF ~s1.isRecording
           THEN updateExpression(Emit(s1, "update expression", 0, 0, ""), failAt)
           ELSE s1)

LoopTail(u) ==
  \E s \in { u } :
  \E failAt \in FailSet(s) :
  \E s1 \in { Emit(IF ~s.isRecording
                   THEN updateExpression(Emit(s, "update expression", 0, 0, ""), failAt)
                   ELSE s,
                   "idle check", 0, 0, "") } :
  \E r1 \in RandSet(s1, IdleFirst(s1)) :
  \E r2 \in RandSet(s1, IdleSecond(s1) /\ (~IdleFirst(s1) \/ ~r1.openOk)) :
    Commit(IdleCheck(s1, r1, r2))

\* a handler that may have entered the blocking part of sendAndReceive
Continue(u) ==
  \E s \in { u } : IF s.pc = "loop" THEN LoopTail(s) ELSE Commit(s)

(***************************************************************************)
(* loop(): the touch handling, one action per branch.                      *)
(***************************************************************************)
loop_touch ==
  /\ sketch = "microbot_esp32"
  /\ pc = "loop"
  /\ ~isTouching /\ ~isPlaying
  /\ \E dt \in TimeSteps, wifi \in BOOLEAN :
     \E s0 \in { [Emit(Begin(S, dt, TRUE), "touch", 0, 0, IF wifi THEN "wifi" ELSE "offline")
                    EXCEPT !.isTouching = TRUE] } :
       IF wifi
       THEN \E mallocOk \in BOOLEAN : LoopTail(startRecording(s0, mallocOk))
       ELSE \E r \in RandSet(s0, TRUE) :
              LoopTail([playRandomExpression(s0, r) EXCEPT !.isTouching = FALSE])

loop_release ==
  /\ sketch = "microbot_esp32"
  /\ pc = "loop"
  /\ isTouching
  /\ \E dt \in TimeSteps :
     \E s0 \in { [Emit(Begin(S, dt, FALSE), "release", 0, 0, "")
                    EXCEPT !.isTouching = FALSE] } :
       IF s0.isRecording
       THEN \E in \in StopSet(s0) : Continue(stopRecording(s0, in.c, in.r))
       ELSE LoopTail(s0)

loop_hold ==
  /\ sketch = "microbot_esp32"
  /\ pc = "loop"
  /\ isTouching /\ isRecording
  /\ \E dt \in TimeSteps :
     \E s0 \in { Emit(Begin(S, dt, TRUE), "hold", 0, 0, "") } :
     \E pin \in BOOLEAN :
     \E delivered \in IF pin /\ Elapsed(s0.now, s0.touchStartTime) < MAX_RECORD_TIME_MS
                      THEN I2sReadSet(s0) ELSE { FALSE } :
     \E rw \in { recordWhileHolding(s0, pin, delivered) } :
       IF rw.ret
       THEN LoopTail(rw.st)
       ELSE \E s1 \in { [rw.st EXCEPT !.isTouching = FALSE] } :
            \E in \in StopSet(s1) : Continue(stopRecording(s1, in.c, in.r))

\* no branch of the touch handling applies
loop_other ==
  /\ sketch = "microbot_esp32"
  /\ pc = "loop"
  /\ \E dt \in TimeSteps, pin \in BOOLEAN :
       /\ ~(pin /\ ~isTouching /\ ~isPlaying)
       /\ ~(~pin /\ isTouching)
       /\ ~(isTouching /\ isRecording)
       /\ LoopTail(Emit(Begin(S, dt, pin), "no touch event", 0, 0, ""))

(***************************************************************************)
(* sendAndReceive: the two blocking loops, one action per iteration, and   *)
(* the code after each of them.                                            *)
(***************************************************************************)
\* client.stop(); lastIdleExprTime = millis(); then the tick of loop() goes on
sendAndReceive_return(u) ==
  \E s \in { u } :
    LoopTail([Emit(s, "client.stop", 0, 0, "")
                EXCEPT !.client = ClientClosed, !.lastIdleExprTime = s.now, !.pc = "loop"])

sendAndReceive_afterHeaders_noFallback(u) ==
  \E s1 \in { u } :
    IF s1.contentLength2 > 0
    THEN Commit([setupSpeaker(s1) EXCEPT !.isPlaying = TRUE, !.pc = "stream"])
    ELSE sendAndReceive_return(s1)

sendAndReceive_afterHeaders_alwaysPlays(u) ==
  \E s \in { u } :
  \E r \in RandSet(s, TRUE) :
  \E s1 \in { playRandomExpression(s, r) } :
    Commit([setupSpeaker(s1) EXCEPT !.isPlaying = TRUE, !.pc = "stream"])

\* from the end of the header loop to the start of the streaming loop
sendAndReceive_afterHeaders(u) ==
  \E s \in { u } :
  \E r \in RandSet(s, TRUE) :
  \E s1 \in { playRandomExpression(s, r) } :
    IF s1.contentLength2 > 0
    THEN Commit([setupSpeaker(s1) EXCEPT !.isPlaying = TRUE, !.pc = "stream"])
    ELSE sendAndReceive_return(s1)

readHeaderLine(s) ==
  LET line == Head(s.client.rxLines)
      s1 == [Emit(s, "client.readStringUntil", line.val, 0, line.name)
               EXCEPT !.client.rxLines = Tail(@)]
  IN IF line.name = "Content-Length" THEN [s1 EXCEPT !.contentLength2 = line.val] ELSE s1

sendAndReceive_headers_noTimeout ==
  /\ sketch = "microbot_esp32"
  /\ pc = "headers"
  /\ \E dt \in TimeSteps, ev \in NetEvents :
     \E s0 \in { Network(Poll(S, dt), ev) } :
       IF ~s0.client.connected
       THEN sendAndReceive_afterHeaders(Emit(s0, "headers end", 0, 0, ""))
       ELSE IF s0.client.rxLines # << >>
       THEN IF Head(s0.client.rxLines).name = "blank"
            THEN sendAndReceive_afterHeaders(readHeaderLine(s0))
            ELSE Commit(readHeaderLine(s0))
       ELSE Commit(s0)

sendAndReceive_headers ==
  /\ sketch = "microbot_esp32"
  /\ pc = "headers"
  /\ \E dt \in TimeSteps, ev \in NetEvents :
     \E s0 \in { Network(Poll(S, dt), ev) } :
       IF ~(s0.client.connected /\ s0.now < s0.timeout)
       THEN sendAndReceive_afterHeaders(Emit(s0, "headers end", 0, 0, ""))
       ELSE IF s0.client.rxLines # << >>
       THEN IF Head(s0.client.rxLines).name = "blank"
            THEN sendAndReceive_afterHeaders(readHeaderLine(s0))
            ELSE Commit(readHeaderLine(s0))
       ELSE Commit(s0)

\* the streaming loop without isPlaying = false after it
sendAndReceive_stream_keepsPlaying ==
  /\ sketch = "microbot_esp32"
  /\ pc = "stream"
  /\ \E dt \in TimeSteps, ev \in NetEvents :
     \E s0 \in { Network(Poll(S, dt), ev) } :
       IF ~((s0.client.connected \/ available(s0.client) > 0) /\ s0.now < s0.timeout)
       THEN sendAndReceive_return(Emit(s0, "stream end", 0, 0, ""))
       ELSE \E failAt \in FailSet(s0) :
            \E s1 \in { updateExpression(s0, failAt) } :
              IF available(s1.client) > 0
              THEN Commit(StreamChunk(s1))
              ELSE Commit(s1)

sendAndReceive_stream ==
  /\ sketch = "microbot_esp32"
  /\ pc = "stream"
  /\ \E dt \in TimeSteps, ev \in NetEvents :
     \E s0 \in { Network(Poll(S, dt), ev) } :
       IF ~((s0.client.connected \/ available(s0.client) > 0) /\ s0.now < s0.timeout)
       THEN sendAndReceive_return([Emit(s0, "stream end", 0, 0, "") EXCEPT !.isPlaying = FALSE])
       ELSE \E failAt \in FailSet(s0) :
            \E s1 \in { updateExpression(s0, failAt) } :
              IF available(s1.client) > 0
              THEN Commit(StreamChunk(s1))
              ELSE Commit(s1)

(***************************************************************************)
(* mic_speaker_test.ino: loop(), one action per branch of the button       *)
(* handling, and the two blocking loops of sendToServerAndPlay.  No serial *)
(* command arrives.  isProcessing is only set inside sendToServerAndPlay,  *)
(* so loop() never starts with it set.                                     *)
(***************************************************************************)
test_loop_press ==
  /\ sketch = "mic_speaker_test"
  /\ pc = "loop"
  /\ ~isProcessing /\ ~wasPressed /\ ~isRecording
  /\ \E dt \in TimeSteps, still \in BOOLEAN, wifi \in BOOLEAN :
     \E s0 \in { delay(Emit(Begin(S, dt, touchPin), "press", 0, 0, ""), DEBOUNCE_MS) } :
       IF still /\ wifi
       THEN \E mallocOk \in BOOLEAN :
            \E fallbackOk \in (IF mallocOk THEN { TRUE } ELSE BOOLEAN) :
            \E s1 \in { test_startRecording(s0, mallocOk, fallbackOk) } :
              Commit([s1 EXCEPT !.wasPressed = s1.isRecording])
       ELSE Commit(s0)

test_loop_recording ==
  /\ sketch = "mic_speaker_test"
  /\ pc = "loop"
  /\ ~isProcessing /\ isRecording
  /\ \E dt \in TimeSteps, pressed \in BOOLEAN :
     \E s0 \in { Emit(Begin(S, dt, touchPin), "recording", 0, 0, "") } :
     \E delivered \in IF pressed /\ Elapsed(s0.now, s0.recordStartTime) < test_maxTimeMs(s0)
                      THEN I2sReadSet(s0) ELSE { FALSE } :
     \E rw \in { test_recordWhileHolding(s0, pressed, delivered) } :
       IF rw.ret
       THEN Commit(rw.st)
       ELSE \E c \in test_ConnectSet(rw.st) :
            \E s1 \in { test_stopRecording(rw.st, c) } :
              IF s1.pc = "loop" THEN Commit([s1 EXCEPT !.wasPressed = FALSE]) ELSE Commit(s1)

test_loop_other ==
  /\ sketch = "mic_speaker_test"
  /\ pc = "loop"
  /\ ~isProcessing /\ ~isRecording
  /\ \E dt \in TimeSteps, pressed \in BOOLEAN :
       /\ ~(pressed /\ ~wasPressed)
       /\ Commit([Emit(Begin(S, dt, touchPin), "no button event", 0, 0, "")
                    EXCEPT !.wasPressed = IF ~pressed THEN FALSE ELSE @])

test_sendToServerAndPlay_headers ==
  /\ sketch = "mic_speaker_test"
  /\ pc = "test.headers"
  /\ \E dt \in TimeSteps, ev \in NetEvents :
     \E s0 \in { Network(Poll(S, dt), ev) } :
       IF ~(s0.client.connected /\ s0.now < s0.timeout)
       THEN Commit([test_setupSpeaker(Emit(s0, "headers end", 0, 0, ""))
                      EXCEPT !.pc = "test.stream"])
       ELSE IF s0.client.rxLines # << >>
       THEN \E s1 \in { readHeaderLine(s0) } :
              IF Head(s0.client.rxLines).name = "blank"
              THEN Commit([test_setupSpeaker([s1 EXCEPT !.contentLength2 = 0])
                             EXCEPT !.pc = "test.stream"])
              ELSE Commit([s1 EXCEPT !.contentLength2 = 0])
       ELSE Commit(s0)

test_sendToServerAndPlay_stream ==
  /\ sketch = "mic_speaker_test"
  /\ pc = "test.stream"
  /\ \E dt \in TimeSteps, ev \in NetEvents :
     \E s0 \in { Network(Poll(S, dt), ev) } :
       IF ~((s0.client.connected \/ available(s0.client) > 0) /\ s0.now < s0.timeout)
       THEN Commit([Emit(s0, "client.stop", 0, 0, "")
                      EXCEPT !.client = ClientClosed, !.isProcessing = FALSE,
                             !.wasPressed = FALSE, !.pc = "loop"])
       ELSE IF available(s0.client) > 0
       THEN Commit(StreamChunk(s0))
       ELSE Commit(s0)

(***************************************************************************)
(* expression_test.ino: loop(), one action per outcome of the touch test.  *)
(***************************************************************************)
expression_test_loop_touch ==
  /\ sketch = "expression_test"
  /\ \E dt \in TimeSteps :
     \E s0 \in { Emit(Begin(S, dt, TRUE), "touch", 0, 0, "") } :
       /\ Elapsed(s0.now, s0.lastTouchTime) > TOUCH_DEBOUNCE_MS
       /\ \E openOk \in (IF s0.numExpressions = 0 THEN { TRUE } ELSE BOOLEAN) :
          \E s1 \in { nextExpression([s0 EXCEPT !.lastTouchTime = s0.now], openOk) } :
          \E failAt \in PlayerFailSet(s1) :
          \E openNext \in (IF s1.numExpressions = 0 THEN { TRUE } ELSE BOOLEAN) :
            Commit(expression_test_frames(s1, failAt, openNext))

expression_test_loop_idle ==
  /\ sketch = "expression_test"
  /\ \E dt \in TimeSteps, pin \in BOOLEAN :
     \E s0 \in { Emit(Begin(S, dt, pin), "no touch event", 0, 0, "") } :
       /\ ~(pin /\ Elapsed(s0.now, s0.lastTouchTime) > TOUCH_DEBOUNCE_MS)
       /\ \E failAt \in PlayerFailSet(s0) :
          \E openNext \in (IF s0.numExpressions = 0 THEN { TRUE } ELSE BOOLEAN) :
            Commit(expression_test_frames(s0, failAt, openNext))

(***************************************************************************)
(* setup(): the state in which loop() is first entered.                    *)
(***************************************************************************)
\* the globals as their initialisers leave them, on a board holding card c
Boot(c) ==
  [ now |-> Epoch, touchPin |-> FALSE, pc |-> "loop", audioBuffer |-> 0,
    audioBufferSize |-> 0, audioDataSize |-> 0, heap |-> << >>,
    isRecording |-> FALSE, isPlaying |-> FALSE, isPlayingExpression |-> FALSE,
    isTouching |-> FALSE, touchStartTime |-> 0, numExpressions |-> 0,
    expressionsLoaded |-> FALSE, currentExpressionIndex |-> -1,
    exprFile |-> FileClosed, exprTotalFrames |-> 0, exprCurrentFrame |-> 0,
    exprFps |-> EXPR_FPS, exprLoop |-> TRUE, lastFrameTime |-> 0,
    lastIdleExprTime |-> 0, i2s |-> I2sNone, client |-> ClientClosed,
    timeout |-> 0, contentLength2 |-> 0, card |-> c, sketch |-> "microbot_esp32",
    recordStartTime |-> 0, isProcessing |-> FALSE, wasPressed |-> FALSE,
    lastTouchTime |-> 0, player |-> ExpressionPlayer, log |-> << >> ]

\* the scan finds every clip of the card (none when the card does not mount)
loadExpressionsFromSD(s) ==
  [s EXCEPT !.numExpressions = Len(s.card), !.expressionsLoaded = Len(s.card) > 0]

setup(c, r) ==
  LET s == loadExpressionsFromSD(Boot(c))
      s1 == IF s.expressionsLoaded /\ s.numExpressions > 0
            THEN playRandomExpression(s, r)
            ELSE Emit(s, "displayIdleScreen", 0, 0, "")
  IN [s1 EXCEPT !.lastIdleExprTime = s1.now]

\* scanExpressions() finds every clip of the card; the first one is played
expression_test_setup(c, openOk) ==
  LET s == [Boot(c) EXCEPT !.sketch = "expression_test", !.currentExpressionIndex = 0,
                           !.numExpressions = Len(c)]
  IN IF s.numExpressions > 0 THEN playExpression(s, 0, openOk) ELSE s

\* the state after construction is s
StartAt(s) ==
  /\ now = s.now
  /\ touchPin = s.touchPin
  /\ pc = s.pc
  /\ audioBuffer = s.audioBuffer
  /\ audioBufferSize = s.audioBufferSize
  /\ audioDataSize = s.audioDataSize
  /\ heap = s.heap
  /\ isRecording = s.isRecording
  /\ isPlaying = s.isPlaying
  /\ isPlayingExpression = s.isPlayingExpression
  /\ isTouching = s.isTouching
  /\ touchStartTime = s.touchStartTime
  /\ numExpressions = s.numExpressions
  /\ expressionsLoaded = s.expressionsLoaded
  /\ currentExpressionIndex = s.currentExpressionIndex
  /\ exprFile = s.exprFile
  /\ exprTotalFrames = s.exprTotalFrames
  /\ exprCurrentFrame = s.exprCurrentFrame
  /\ exprFps = s.exprFps
  /\ exprLoop = s.exprLoop
  /\ lastFrameTime = s.lastFrameTime
  /\ lastIdleExprTime = s.lastIdleExprTime
  /\ i2s = s.i2s
  /\ client = s.client
  /\ timeout = s.timeout
  /\ contentLength2 = s.contentLength2
  /\ card = s.card
  /\ sketch = s.sketch
  /\ recordStartTime = s.recordStartTime
  /\ isProcessing = s.isProcessing
  /\ wasPressed = s.wasPressed
  /\ lastTouchTime = s.lastTouchTime
  /\ player = s.player
  /\ log = s.log

Start(u) == \E s \in { Rebase(u) } : StartAt(s)

Init ==
  \E c \in {NoCard, MicrobotCard} :
  \E r \in RandSet(loadExpressionsFromSD(Boot(c)), TRUE) : Start(setup(c, r))

Next ==
  \/ loop_touch
  \/ loop_release
  \/ loop_hold
  \/ loop_other
  \/ sendAndReceive_headers
  \/ sendAndReceive_stream

Spec == Init /\ [][Next]_vars

(***************************************************************************)
(* Captures near the limits.  The boards start in the middle of a capture, *)
(* the buffer filled by earlier pumps and the hold begun some time ago, or *)
(* (mic_speaker_test) after setup().                                       *)
(***************************************************************************)
CaptureAges == {0, 200, 499, 500}
CaptureFills(size) == {0, 896, 4096, size - 256, size - 100}

MidCapture(s, fill, age) ==
  [s EXCEPT !.audioDataSize = fill, !.touchStartTime = s.now - age,
            !.recordStartTime = s.now - age]

test_setup == [Boot(NoCard) EXCEPT !.sketch = "mic_speaker_test"]

InitCapture ==
  \/ \E c \in {NoCard, MicrobotCard} :
     \E s \in { startRecording([setup(c, [index |-> 0, openOk |-> TRUE])
                                  EXCEPT !.isTouching = TRUE, !.touchPin = TRUE], TRUE) } :
     \E fill \in CaptureFills(s.audioBufferSize), age \in CaptureAges :
       Start(MidCapture(s, fill, age))
  \/ Start(test_setup)
  \/ \E mallocOk \in BOOLEAN :
     \E s \in { [test_startRecording(test_setup, mallocOk, TRUE) EXCEPT !.wasPressed = TRUE] } :
     \E fill \in CaptureFills(s.audioBufferSize), age \in CaptureAges :
       Start(MidCapture(s, fill, age))

NextCapture ==
  \/ loop_hold
  \/ loop_release
  \/ test_loop_press
  \/ test_loop_recording
  \/ test_loop_other
  \/ test_sendToServerAndPlay_headers
  \/ test_sendToServerAndPlay_stream

SpecCapture == InitCapture /\ [][NextCapture]_vars

(***************************************************************************)
(* The upload and response cycle to its end, on both boards.  Each         *)
(* iteration of a blocking loop runs once the one before has returned, and *)
(* millis() does not stand still over infinitely many of them.             *)
(***************************************************************************)
\* a capture long enough to be uploaded is on, or (mic_speaker_test) none yet
InitCycle ==
  \/ \E s \in { startRecording([setup(MicrobotCard, [index |-> 0, openOk |-> TRUE])
                                  EXCEPT !.isTouching = TRUE, !.touchPin = TRUE], TRUE) } :
       Start(MidCapture(s, 4096, MIN_RECORD_TIME_MS))
  \/ Start(test_setup)
  \/ \E s \in { [test_startRecording(test_setup, TRUE, TRUE) EXCEPT !.wasPressed = TRUE] } :
       Start(MidCapture(s, 4096, MIN_RECORD_TIME_MS))

NextCycle ==
  \/ NextCapture
  \/ sendAndReceive_headers
  \/ sendAndReceive_stream

\* the iteration of a blocking loop that led to this state saw millis() advance
TimeMoved == log # << >> /\ log[1].op = "millis" /\ log[1].a > 0

\* The scheduling of a blocking loop: its iterations follow one another and
\* millis() does not stand still over infinitely many of them.  This is weak
\* fairness of the step (pc # "loop" /\ TimeMoved'), which is possible in every
\* state inside a blocking loop, written out.
SpecCycle ==
  /\ InitCycle
  /\ [][NextCycle]_vars
  /\ ([]<>(pc = "loop") \/ []<><<pc # "loop" /\ TimeMoved'>>_vars)

\* The firmware from setup() on under the same scheduling of its blocking loops
SpecFair ==
  /\ Init
  /\ [][Next]_vars
  /\ ([]<>(pc = "loop") \/ []<><<pc # "loop" /\ TimeMoved'>>_vars)

(***************************************************************************)
(* Clip playback alone: microbot_esp32 left untouched, and expression_test,*)
(* on a card with clips of every kind.                                     *)
(***************************************************************************)
InitExpression ==
  \/ \E r \in RandSet(loadExpressionsFromSD(Boot(ExpressionCard)), TRUE) :
       Start(setup(ExpressionCard, r))
  \/ \E c \in {NoCard, ExpressionCard}, openOk \in BOOLEAN :
       Start(expression_test_setup(c, openOk))

NextExpression ==
  \/ loop_other
  \/ expression_test_loop_touch
  \/ expression_test_loop_idle

SpecExpression == InitExpression /\ [][NextExpression]_vars

(***************************************************************************)
(* The two playback engines called directly, as any caller of              *)
(* startExpression / playExpressionFrame and of ExpressionPlayer::load /   *)
(* playFrame may: a load of any clip of the card, then calls of the frame  *)
(* function whatever the engine's state.  The log holds the calls since    *)
(* the last load.                                                          *)
(***************************************************************************)
FrameCalls ==
  Cardinality({ i \in DOMAIN log : log[i].op \in {"playExpressionFrame", "displayFrame"} })

\* the call of a load, with whether the engine was playing when it was made
Call(s, playing, fn) ==
  Emit([s EXCEPT !.log = << >>], "call", IF playing THEN 1 ELSE 0, 0, fn)

call_startExpression ==
  /\ sketch = "microbot_esp32"
  /\ \E c \in 1 .. numExpressions, openOk \in BOOLEAN :
       Commit(startExpression(Call(S, isPlayingExpression, "startExpression"), c, openOk))

call_playExpressionFrame ==
  /\ sketch = "microbot_esp32"
  /\ FrameCalls < MaxCalls
  /\ \E failAt \in FailChunks : Commit(playExpressionFrame(S, failAt))

call_load ==
  /\ sketch = "expression_test"
  /\ \E c \in 1 .. numExpressions, openOk \in BOOLEAN :
       Commit(ExpressionPlayer_load(Call(S, player.isPlaying, "load"), c, openOk).st)

call_playFrame ==
  /\ sketch = "expression_test"
  /\ FrameCalls < MaxCalls
  /\ \E failAt \in FailChunks : Commit(ExpressionPlayer_playFrame(S, failAt).st)

\* the clips have been scanned, none has been loaded yet
InitEngine ==
  \/ Start(loadExpressionsFromSD(Boot(EngineCard)))
  \/ Start([Boot(EngineCard) EXCEPT !.sketch = "expression_test",
                                   !.numExpressions = Len(EngineCard)])

NextEngine ==
  \/ call_startExpression
  \/ call_playExpressionFrame
  \/ call_load
  \/ call_playFrame

SpecEngine == InitEngine /\ [][NextEngine]_vars

(***************************************************************************)
(* The engines with their stop functions called directly as well, in any   *)
(* state the calls of SpecEngine reach.  The log of a stop holds the call  *)
(* alone: a tells whether the engine was playing, b whether its file was   *)
(* open.                                                                   *)
(***************************************************************************)
StopCall(s, playing, open, fn) ==
  Emit([s EXCEPT !.log = << >>], "call", IF playing THEN 1 ELSE 0, IF open THEN 1 ELSE 0, fn)

call_stopExpression ==
  /\ sketch = "microbot_esp32"
  /\ Commit(stopExpression(StopCall(S, isPlayingExpression, exprFile.open, "stopExpression")))

call_unload ==
  /\ sketch = "expression_test"
  /\ Commit(ExpressionPlayer_unload(StopCall(S, player.isPlaying, player.binFile.open, "unload")))

NextStop ==
  \/ call_startExpression
  \/ call_playExpressionFrame
  \/ call_load
  \/ call_playFrame
  \/ call_stopExpression
  \/ call_unload

SpecStop == InitEngine /\ [][NextStop]_vars

(***************************************************************************)
(* Properties of the firmware loop (Spec).                                 *)
(***************************************************************************)
LogHas(op) == \E i \in DOMAIN log : log[i].op = op

\* C1: a capture read (i2s_read) is executed only while the bus configuration
\* installed last is the capture one, a playback write (i2s_write) only while
\* it is the playback one; between two handlers the bus mode is one of Idle,
\* CaptureActive, PlaybackActive, and no read or write happens in Idle.
C1_BusModeOfEveryTransfer ==
  /\ BusMode(i2s) \in {"Idle", "CaptureActive", "PlaybackActive"}
  /\ \A i \in DOMAIN log :
       /\ log[i].op = "i2s_read" => log[i].m = "CaptureActive"
       /\ log[i].op = "i2s_write" => log[i].m = "PlaybackActive"

\* a response is being played through the bus that captured the request
C1_Witness ==
  /\ LogHas("i2s_write")
  /\ BusMode(i2s) = "PlaybackActive"
  /\ audioDataSize >= MIN_RECORD_BYTES

\* C2: every bus-mode request executes the teardown right before the install,
\* the install right before the pin assignment, with no read or write between
\* them, whatever the mode was before; the request ends in the configuration
\* asked for, also when that was the mode already.
C2_TeardownThenInstall ==
  \A i \in DOMAIN log :
    /\ log[i].op = "i2s_driver_uninstall" =>
         i + 1 <= Len(log) /\ log[i + 1].op = "i2s_driver_install"
    /\ log[i].op = "i2s_driver_install" =>
         /\ i > 1 /\ log[i - 1].op = "i2s_driver_uninstall"
         /\ i + 2 <= Len(log)
         /\ log[i + 1].op = "i2s_set_pin"
         /\ log[i + 1].m = (IF log[i].m = "RX" THEN "MIC" ELSE "SPK")
         /\ log[i + 2].op = "i2s_zero_dma_buffer"
         /\ log[i + 2].m = (IF log[i].m = "RX" THEN "CaptureActive" ELSE "PlaybackActive")
         /\ (\A j \in (i + 1) .. Len(log) : log[j].op # "i2s_driver_uninstall")
              => BusMode(i2s) = log[i + 2].m

\* capture is requested while the bus is in CaptureActive already
C2_Witness ==
  \E i \in DOMAIN log :
    /\ log[i].op = "i2s_driver_uninstall" /\ log[i].m = "CaptureActive"
    /\ i + 1 <= Len(log) /\ log[i + 1].op = "i2s_driver_install" /\ log[i + 1].m = "RX"
    /\ BusMode(i2s) = "CaptureActive"

\* C3: between two ticks isRecording and isPlayingExpression are never both
\* true, playExpressionFrame is never executed while isRecording is true, and
\* no clip is started while a capture is on.
C3_CaptureExcludesExpression ==
  /\ ~(isRecording /\ isPlayingExpression)
  /\ \A i \in DOMAIN log :
       /\ log[i].op = "playExpressionFrame" => log[i].m # "recording"
       /\ log[i].op = "startExpression" => log[i].b = 0

\* startRecording has stopped a clip that was playing, and the capture is on
C3_Witness ==
  /\ isRecording
  /\ \E i \in DOMAIN log : log[i].op = "startRecording" /\ log[i].a = 1

\* C6: at most one capture buffer exists at any time and none leaks: no
\* allocation happens while a block is still allocated, the pointer is null
\* exactly when no block is allocated, and whenever no capture is on (after an
\* allocation failure, a too short capture, a connect failure, an upload) the
\* buffer has been freed and the pointer is null.
C6_OneBufferNoLeak ==
  /\ Len(heap) <= 1
  /\ (audioBuffer = 0) <=> (heap = << >>)
  /\ audioBuffer # 0 => audioBuffer = 1 /\ heap[1] = audioBufferSize
  /\ ~isRecording => audioBuffer = 0 /\ heap = << >>
  /\ \A i \in DOMAIN log : log[i].op = "malloc" => log[i].b = 0

\* an upload has been sent and its buffer freed
C6_Witness ==
  /\ \E i \in DOMAIN log : log[i].op = "client.write"
  /\ \E i \in DOMAIN log : log[i].op = "free" /\ log[i].a = 1
  /\ heap = << >>
  /\ audioBuffer = 0

(***************************************************************************)
(* Properties of a capture and of its upload (SpecCapture).                *)
(***************************************************************************)
\* C4: after any sequence of pump calls (recordWhileHolding), also when the
\* hold outlasts the maximum duration and with the smaller fallback buffer,
\* audioDataSize never exceeds audioBufferSize and no sample is stored at an
\* index at or beyond audioBufferSize / 2.
C4_CaptureStaysInBuffer ==
  /\ audioDataSize <= audioBufferSize
  /\ \A i \in DOMAIN log :
       log[i].op = "store" =>
         /\ log[i].m = ""
         /\ log[i].a < log[i].b
         /\ log[i].b - 1 < audioBufferSize \div 2

\* the pump stored the sample that fills the fallback buffer
C4_Witness ==
  /\ sketch = "mic_speaker_test"
  /\ audioBufferSize = SAMPLE_RATE * TEST_FALLBACK_SECONDS * 2
  /\ audioDataSize = audioBufferSize
  /\ \E i \in DOMAIN log : log[i].op = "store" /\ log[i].b = audioBufferSize \div 2

\* the index of the last event of the log that is a call of op, 0 if none is
LastOf(op) ==
  IF LogHas(op) THEN CHOOSE i \in DOMAIN log :
                       log[i].op = op /\ \A j \in DOMAIN log : log[j].op = op => j <= i
  ELSE 0

\* C5: a capture that ends (release or maximum duration) is classified too
\* short if and only if it lasted less than 500 ms or captured fewer than 1000
\* bytes; a too short capture frees its buffer, opens no connection, calls for
\* a clip to play (which plays unless the card holds none or it cannot be
\* opened) and leaves the machine idle between ticks; every other capture goes
\* on to the upload.
C5_TooShortClassification ==
  \A i \in DOMAIN log :
    log[i].op = "stopRecording" =>
      LET short == log[i].a < 500 \/ log[i].b < 1000
      IN /\ LogHas("Too short!") <=> short
         /\ short =>
              /\ audioBuffer = 0 /\ heap = << >>
              /\ \E j \in DOMAIN log : j > i /\ log[j].op = "free"
              /\ ~LogHas("client.connect")
              /\ pc = "loop" /\ ~isRecording /\ ~isTouching /\ ~isPlaying /\ ~isProcessing
              /\ sketch = "microbot_esp32" =>
                   /\ \E j \in DOMAIN log : j > i /\ log[j].op = "playRandomExpression"
                   /\ isPlayingExpression <=>
                        /\ LastOf("startExpression") > i
                        /\ log[LastOf("startExpression")].m = "ok"
         /\ ~short => LogHas("client.connect")

\* a hold of 200 ms with enough bytes captured is discarded, a clip plays again
C5_Witness ==
  /\ sketch = "microbot_esp32"
  /\ \E i \in DOMAIN log : log[i].op = "stopRecording" /\ log[i].a = 200 /\ log[i].b >= 1000
  /\ LogHas("Too short!")
  /\ isPlayingExpression
  /\ audioBuffer = 0

\* C7: the Content-Length value sent equals the length of the part header
\* literal plus audioDataSize plus the length of the footer literal, and the
\* body handed to the connection after it is the part header, the captured
\* bytes in consecutive writes from offset 0 to audioDataSize, and the footer;
\* for audioDataSize = 4096 it is 116 + 4096 + 25.
C7_ContentLengthIsBodyLength ==
  \A i \in DOMAIN log :
    (log[i].op = "client.print" /\ log[i].m = "Content-Length") =>
      LET last == LastOf("client.print")
      IN /\ log[i].a = Len(partHeader) + audioDataSize + Len(partFooter)
         /\ log[i].a = 116 + audioDataSize + 25
         /\ log[i + 1].op = "client.print" /\ log[i + 1].m = "part header"
         /\ log[i + 1].b = Len(partHeader)
         /\ last > i + 1 /\ log[last].m = "part footer" /\ log[last].b = Len(partFooter)
         /\ \A k \in (i + 2) .. (last - 1) :
              /\ log[k].op = "client.write"
              /\ log[k].b > 0
              /\ log[k].a = (IF k = i + 2 THEN 0 ELSE log[k - 1].a + log[k - 1].b)
         /\ (IF last = i + 2 THEN 0 ELSE log[last - 1].a + log[last - 1].b) = audioDataSize
         /\ audioDataSize = 4096 => log[i].a = 4237

\* a capture of 4096 bytes has been uploaded
C7_Witness ==
  /\ audioDataSize = 4096
  /\ \E i \in DOMAIN log :
       log[i].op = "client.print" /\ log[i].m = "Content-Length" /\ log[i].a = 4237
  /\ LogHas("client.write")

(***************************************************************************)
(* Properties of clip playback (SpecExpression).  A call of the frame      *)
(* function is the part of the log from its entry event to its return.     *)
(***************************************************************************)
EntryOps == {"playExpressionFrame", "displayFrame"}
ReturnOps == {"playExpressionFrame.return", "displayFrame.return"}

\* the return event of the call entered at event e
ReturnOf(e) ==
  CHOOSE r \in DOMAIN log :
    /\ r > e /\ log[r].op \in ReturnOps
    /\ \A j \in (e + 1) .. (r - 1) : log[j].op \notin ReturnOps

\* the storage reads of the call entered at event e
ReadsOf(e) == { k \in (e + 1) .. (ReturnOf(e) - 1) : log[k].op = "File.read" }

RECURSIVE BytesRead(_)
BytesRead(reads) ==
  IF reads = {} THEN 0
  ELSE LET k == CHOOSE k \in reads : TRUE IN log[k].b + BytesRead(reads \ {k})

\* the geometry of the clip being played, and the engine's frame index and read position
FrameWidth == IF sketch = "expression_test" THEN player.width ELSE EXPR_WIDTH
FrameHeight == IF sketch = "expression_test" THEN player.height ELSE EXPR_HEIGHT
LinesPerChunk == IF sketch = "expression_test" THEN PLAYER_CHUNK_LINES ELSE EXPR_CHUNK_LINES
EngineFrame == IF sketch = "expression_test" THEN player.currentFrame ELSE exprCurrentFrame
EnginePos == IF sketch = "expression_test" THEN player.binFile.pos ELSE exprFile.pos

\* C8: a successful call of the frame function issues ceil(height /
\* linesPerChunk) storage reads that total width * height * 2 bytes, every
\* read but the last of one full chunk, the last of the lines that are left;
\* when the frame is a whole number of chunks that is height / linesPerChunk
\* reads of one full chunk each.
C8_ReadsOfOneFrame ==
  \A e \in DOMAIN log :
    (log[e].op \in EntryOps /\ log[ReturnOf(e)].a = 1) =>
      LET reads == ReadsOf(e)
          chunk == FrameWidth * LinesPerChunk * 2
          n == (FrameHeight + LinesPerChunk - 1) \div LinesPerChunk
      IN /\ Cardinality(reads) = n
         /\ BytesRead(reads) = FrameWidth * FrameHeight * 2
         /\ \A k \in reads :
              LET rank == Cardinality({ j \in reads : j <= k })
              IN /\ log[k].b = log[k].a
                 /\ rank < n => log[k].a = chunk
                 /\ rank = n => log[k].a = FrameWidth * (FrameHeight - (n - 1) * LinesPerChunk) * 2
         /\ (FrameWidth * FrameHeight * 2) % chunk = 0 =>
              /\ Cardinality(reads) = FrameHeight \div LinesPerChunk
              /\ \A k \in reads : log[k].a = chunk

\* a frame of 50 lines has been shown with reads of 20, 20 and 10 lines
C8_Witness ==
  /\ sketch = "expression_test"
  /\ player.height = 50
  /\ \E e \in DOMAIN log :
       /\ log[e].op = "displayFrame" /\ log[ReturnOf(e)].a = 1
       /\ \E k \in ReadsOf(e) : log[k].a = player.width * 10 * 2

\* C9: with loop = true, a call entered once totalFrames frames have been
\* consumed (totalFrames > 0) or with the read position at the end of the file
\* seeks to offset 0 first and never reports the end of the clip; when its
\* reads succeed it has rendered frame 0 in that same call: rows from 0 on
\* were pushed, the frame index is 1 and the read position one frame.
C9_LoopingClipRestarts ==
  \A k \in DOMAIN log :
    ( /\ log[k].op = "frame.state" /\ log[k].m = "loop"
      /\ \/ log[k].a > 0 /\ log[k - 1].a >= log[k].a
         \/ log[k - 1].b >= log[k].b ) =>
      LET r == ReturnOf(k - 1)
      IN /\ log[k + 1].op = "File.seek" /\ log[k + 1].a = 0
         /\ \A j \in (k + 1) .. (r - 1) : log[j].op = "File.read" => j > k + 1
         /\ log[r].m \in {"", "read error"}
         /\ log[r].a = 1 =>
              /\ log[r].b = 1
              /\ \E j \in (k + 1) .. (r - 1) : log[j].op = "tft.pushImage" /\ log[j].a = 0
              /\ EngineFrame = 1
              /\ EnginePos = FrameWidth * FrameHeight * 2

\* a clip without frame count was rewound at the end of its file
C9_Witness ==
  \E k \in DOMAIN log :
    /\ log[k].op = "frame.state" /\ log[k].m = "loop" /\ log[k].a = 0
    /\ log[k + 1].op = "File.seek" /\ log[k + 1].m = "position"
    /\ log[ReturnOf(k - 1)].a = 1
    /\ EngineFrame = 1

\* C10, as the code has it: with loop = false and totalFrames = N > 0, the
\* call that completes frame N - 1 returns true and leaves the engine
\* playing with frame index N; the call after it, entered with frame index N,
\* issues no read, returns "finished" and leaves the engine not playing.
C10_FinishedOnTheCallAfterTheLastFrame ==
  \A k \in DOMAIN log :
    (log[k].op = "frame.state" /\ log[k].m = "once" /\ log[k].a > 0) =>
      LET N == log[k].a
          r == ReturnOf(k - 1)
      IN /\ log[k - 1].a >= N =>
              r = k + 1 /\ log[r].a = 0 /\ log[r].m = "finished" /\ log[r].b = 0
         /\ (log[k - 1].a = N - 1 /\ log[r].a = 1) =>
              log[r].m = "" /\ log[r].b = 1 /\ EngineFrame = N

\* a clip of two frames played once has reported its end
C10_Witness ==
  \E k \in DOMAIN log :
    /\ log[k].op = "frame.state" /\ log[k].m = "once" /\ log[k].a = 2
    /\ log[k - 1].a = 2
    /\ log[k + 1].op \in ReturnOps /\ log[k + 1].m = "finished" /\ log[k + 1].b = 0

\* C10 as stated: with loop = false and totalFrames = N > 0, the call that
\* completes frame N - 1 returns "finished" and leaves the engine not playing.
C10_FinishedOnTheLastFrame ==
  \A k \in DOMAIN log :
    ( /\ log[k].op = "frame.state" /\ log[k].m = "once" /\ log[k].a > 0
      /\ log[k - 1].a = log[k].a - 1
      /\ \A j \in ReadsOf(k - 1) : log[j].b = log[j].a
      /\ ReadsOf(k - 1) # {} ) =>
      LET r == ReturnOf(k - 1)
      IN log[r].m = "finished" /\ log[r].b = 0

(***************************************************************************)
(* Properties of the engines called directly (SpecEngine).                 *)
(***************************************************************************)
EnginePlaying == IF sketch = "expression_test" THEN player.isPlaying ELSE isPlayingExpression
EngineOpen == IF sketch = "expression_test" THEN player.binFile.open ELSE exprFile.open

\* the calls to storage and display between the entry e of a call and its return
EffectsOf(e) ==
  { k \in (e + 1) .. (ReturnOf(e) - 1) : log[k].op \in {"File.read", "File.seek", "tft.pushImage"} }

\* C11: once a call of the frame function has returned "finished" for a clip
\* played once, every later call before the next load returns false as well,
\* issues no storage read, no seek and no display write, and leaves the frame
\* index, the read position and the playing flag as the call before it did.
C11_FinishedStaysFinished ==
  \A r \in DOMAIN log :
    (log[r].op \in ReturnOps /\ log[r].m = "finished") =>
      \A e \in (r + 1) .. Len(log) :
        log[e].op \in EntryOps =>
          /\ log[ReturnOf(e)].a = 0
          /\ log[ReturnOf(e)].b = 0
          /\ EffectsOf(e) = {}
          /\ \A f \in (e + 1) .. Len(log) :
               log[f].op \in EntryOps => log[f].a = log[e].a /\ log[f].b = log[e].b
          /\ EngineFrame = log[e].a /\ EnginePos = log[e].b /\ ~EnginePlaying

\* a clip of two frames played once has reported its end and the frame
\* function has been called twice more
C11_Witness ==
  \E r \in DOMAIN log :
    /\ log[r].op \in ReturnOps /\ log[r].m = "finished"
    /\ Cardinality({ e \in (r + 1) .. Len(log) : log[e].op \in EntryOps }) >= 2
    /\ FrameCalls = 5

EngineFps == IF sketch = "expression_test" THEN player.fps ELSE exprFps
EngineLoop == IF sketch = "expression_test" THEN player.loop ELSE exprLoop
EngineTotalFrames == IF sketch = "expression_test" THEN player.totalFrames ELSE exprTotalFrames

\* the clip of the load that succeeded last, 0 when none did
LoadedClip ==
  IF \E i \in DOMAIN log : log[i].op \in {"startExpression", "load"} /\ log[i].m = "ok"
  THEN log[CHOOSE i \in DOMAIN log : log[i].op \in {"startExpression", "load"} /\ log[i].m = "ok"].a
  ELSE 0

C13_FpsPositive ==
  LoadedClip # 0 => EngineFps > 0

\* C14, as stated: a call of the frame function in which a chunk read returns
\* fewer bytes than asked for returns false, does not increment the frame
\* index and leaves the engine not playing, with loop = true too.
C14_ShortReadStops ==
  \A e \in DOMAIN log :
    (log[e].op \in EntryOps /\ \E k \in ReadsOf(e) : log[k].b < log[k].a) =>
      LET r == ReturnOf(e)
      IN /\ log[r].a = 0
         /\ log[r].b = 0
         /\ r = Len(log) => ~EnginePlaying /\ EngineFrame <= log[e].a

\* C15: a load (startExpression, ExpressionPlayer::load) of a clip that cannot
\* be opened returns failure and leaves the engine not playing and without an
\* open file, also when a clip was playing at the call, and the frame function
\* then shows nothing; a load that succeeds leaves the engine playing with an
\* open file, frame index 0 and read position 0.
C15_LoadOutcome ==
  \A i \in DOMAIN log :
    log[i].op \in {"startExpression", "load"} =>
      /\ log[i].m \in {"ok", "failed"}
      /\ log[i].m = "failed" =>
           /\ ~EnginePlaying /\ ~EngineOpen
           /\ \A e \in (i + 1) .. Len(log) :
                log[e].op \in EntryOps => log[ReturnOf(e)].a = 0 /\ EffectsOf(e) = {}
      /\ (log[i].m = "ok" /\ i = Len(log)) =>
           EnginePlaying /\ EngineOpen /\ EngineFrame = 0 /\ EnginePos = 0

\* the load of a clip has failed while another clip was playing, and the frame
\* function has been called since
C15_Witness ==
  /\ \E i \in DOMAIN log : log[i].op = "call" /\ log[i].a = 1
  /\ \E i \in DOMAIN log : log[i].op \in {"startExpression", "load"} /\ log[i].m = "failed"
  /\ FrameCalls > 0
  /\ ~EnginePlaying

(***************************************************************************)
(* Properties of the upload and response cycle and of the tick (Spec).     *)
(***************************************************************************)
FirstOf(op) == CHOOSE i \in DOMAIN log : log[i].op = op /\ \A j \in 1 .. (i - 1) : log[j].op # op

\* the connection could not be opened
ConnectFailed == \E i \in DOMAIN log : log[i].op = "client.connect" /\ log[i].m = "failed"

\* the cycle has ended after a header section that declared no length above 0:
\* none arrived before the timeout, or none of its lines gave one
EndedWithoutLength == LogHas("client.stop") /\ contentLength2 <= 0

C17_NoLengthNothingPlayed ==
  /\ (pc = "stream" \/ isPlaying \/ LogHas("i2s_write")) => contentLength2 > 0
  /\ EndedWithoutLength =>
       /\ ~LogHas("i2s_driver_uninstall") /\ ~LogHas("i2s_driver_install")
       /\ BusMode(i2s) = "CaptureActive"
       /\ ~LogHas("i2s_write") /\ ~LogHas("client.read")
       /\ ~isPlaying
       /\ ~client.connected /\ client = ClientClosed
       /\ pc = "loop"

\* the blank line that ends the headers was read, no line before it had given
\* a length above 0, and the cycle has ended
C17_Witness ==
  /\ \E i \in DOMAIN log : log[i].op = "client.readStringUntil" /\ log[i].m = "blank"
  /\ LogHas("client.stop")
  /\ BusMode(i2s) = "CaptureActive"
  /\ contentLength2 = 0
  /\ ~isPlaying

(***************************************************************************)
(* Termination of the upload and response cycle (SpecCycle).               *)
(***************************************************************************)
\* C18: every upload and response cycle returns to loop(): the firmware does
\* not stay in the wait for the headers or in the streaming loop for ever,
\* given that every iteration returns and that millis() advances; and a byte
\* is written to the speaker only in an iteration whose test found the
\* receive deadline still ahead.
C18_CycleTerminates ==
  /\ [](LogHas("i2s_write") => now < timeout)
  /\ (pc # "loop") ~> (pc = "loop")

\* the streaming loop was left when the receive deadline had been reached, and
\* the cycle has returned to loop()
C18_Witness ==
  /\ sketch = "microbot_esp32"
  /\ pc = "loop"
  /\ LogHas("stream end")
  /\ LogHas("client.stop")
  /\ timeout <= now

(***************************************************************************)
(* Properties of the idle check and of the order of a tick (Spec).         *)
(***************************************************************************)
\* the tick that ended here reached the idle check with no hold, no capture and
\* no response playback, and at least one clip is on the card
IdleWithClips ==
  /\ sketch = "microbot_esp32"
  /\ pc = "loop"
  /\ LogHas("idle check")
  /\ ~isTouching /\ ~isRecording /\ ~isPlaying
  /\ expressionsLoaded /\ numExpressions > 0

\* the idle check of this tick called startExpression, and that was the last call
StartedByIdleCheck(m) ==
  /\ LogHas("startExpression")
  /\ LastOf("startExpression") > LastOf("idle check")
  /\ log[LastOf("startExpression")].m = m

\* C19: a tick that finds the device idle (no hold, no capture, no response
\* playback) with at least one clip on the card does not end without a clip
\* playing unless the idle check of that very tick tried to start one and the
\* file could not be opened; so an unrequested playback starts in the first
\* idle tick whose open succeeds, which is no later than the tick in which the
\* idle interval has elapsed.
C19_IdleStartsExpression ==
  (IdleWithClips /\ ~isPlayingExpression) => StartedByIdleCheck("failed")

\* the idle interval had elapsed, and the idle check started a clip
C19_Witness ==
  /\ IdleWithClips
  /\ LogHas("idle interval")
  /\ StartedByIdleCheck("ok")
  /\ isPlayingExpression

\* the steps of a tick in the order of loop(): 1 the touch handling, 2 the
\* capture step it takes, 3 the frame-interval check, 4 the idle check, 5 and 6
\* the two starts of the idle check; 0 for every other event
StepOf(e) ==
  IF e.op \in {"touch", "release", "hold", "no touch event"} THEN 1
  ELSE IF e.op \in {"startRecording", "stopRecording"} THEN 2
  ELSE IF e.op = "recordWhileHolding.return" /\ e.a = 1 THEN 2
  ELSE IF e.op = "update expression" THEN 3
  ELSE IF e.op = "idle check" THEN 4
  ELSE IF e.op = "idle interval" THEN 5
  ELSE IF e.op = "idle screen" THEN 6
  ELSE 0

\* the capture steps of this tick: a start, a stop, or a pump that returned true
CaptureSteps == { i \in DOMAIN log : StepOf(log[i]) = 2 }

\* the touch handling of this tick took a branch that acts on a capture
CaptureBranch ==
  /\ log # << >>
  /\ \/ log[1].op = "touch" /\ log[1].m = "wifi"
     \/ log[1].op = "hold"

\* C20: in every tick the steps come in one order: the touch handling with
\* its capture step (a start on a touch with WiFi, a stop on release of a
\* running capture, or one pump, which turns into a stop when the hold has
\* ended: never two of them, and none in a tick whose poll matches no such
\* branch), then the frame-interval check, which runs if and only if no capture
\* is running, then the idle check, whose starts happen only with no hold, no
\* capture and no response playback.
C20_TickOrder ==
  sketch = "microbot_esp32" =>
    /\ \A i, j \in DOMAIN log :
         (i < j /\ StepOf(log[i]) > 0 /\ StepOf(log[j]) > 0) => StepOf(log[i]) < StepOf(log[j])
    /\ Cardinality(CaptureSteps) <= 1
    /\ (CaptureBranch /\ pc = "loop") => Cardinality(CaptureSteps) = 1
    /\ LogHas("idle check") => (pc = "loop" /\ (LogHas("update expression") <=> ~isRecording))
    /\ (pc = "loop" /\ (LogHas("client.stop") \/ \E i \in DOMAIN log : StepOf(log[i]) = 1))
         => LogHas("idle check")
    /\ (LogHas("idle interval") \/ LogHas("idle screen"))
         => (~isTouching /\ ~isRecording /\ ~isPlaying)

\* a release ended a capture, the frame-interval check ran, and the idle check
\* started a clip after the idle screen
C20_Witness ==
  /\ log[1].op = "release"
  /\ LogHas("stopRecording")
  /\ LogHas("update expression")
  /\ LogHas("idle screen")
  /\ pc = "loop"

(***************************************************************************)
(* Properties of the manifest of a clip (SpecEngine).                      *)
(***************************************************************************)
NotSpace(ch) == ch # Sp

\* line l gives key k: left of an '=' it holds the word k and, but for spaces,
\* nothing else (so it is neither blank nor a comment)
Gives(l, k) ==
  \E i \in DOMAIN l :
    l[i] = Equals /\ SelectSeq(SubSeq(l, 1, i - 1), NotSpace) = << Word(k) >>

\* the number that a line giving a key gives it: the one that follows the first
\* '=', spaces apart; 0 when no number follows
GivenValue(l) ==
  LET i == CHOOSE i \in DOMAIN l : l[i] = Equals /\ \A j \in 1 .. (i - 1) : l[j] # Equals
      rest == SelectSeq(SubSeq(l, i + 1, Len(l)), NotSpace)
  IN IF rest # << >> /\ rest[1].c = "number" THEN rest[1].number ELSE 0

\* the value of the last line of the text that gives key k
LastGiven(text, k) ==
  GivenValue(text[CHOOSE i \in DOMAIN text :
                    Gives(text[i], k) /\ \A j \in DOMAIN text : Gives(text[j], k) => j <= i])

\* after the load of a clip whose manifest, named after the clip, was parsed,
\* the field of every key of `keys` that the text gives has the value of the
\* last line giving it
KeysInEffect(keys) ==
  (LoadedClip # 0 /\ card[LoadedClip].hasManifest) =>
    LET text == card[LoadedClip].manifest
        given(k) == k \in keys /\ \E i \in DOMAIN text : Gives(text[i], k)
    IN /\ given("width") => FrameWidth = LastGiven(text, "width")
       /\ given("height") => FrameHeight = LastGiven(text, "height")
       /\ given("fps") => EngineFps = LastGiven(text, "fps")
       /\ given("frames") => EngineTotalFrames = LastGiven(text, "frames")
       /\ given("loop") => EngineLoop = (LastGiven(text, "loop") # 0)

\* C21, as stated: when a manifest is parsed, blank lines, lines that start
\* with '#' and lines without '=' change nothing, key and value are taken
\* without the spaces around them, and each of the keys width, height, fps,
\* frames and loop is recognized with the value of its last occurrence in
\* effect after the load.
C21_ManifestKeys ==
  KeysInEffect({"width", "height", "fps", "frames", "loop"})

\* the fields that both engines take from a manifest have the values that
\* `text` gives them last
TextInEffect(text) ==
  /\ (\E i \in DOMAIN text : Gives(text[i], "fps")) => EngineFps = LastGiven(text, "fps")
  /\ (\E i \in DOMAIN text : Gives(text[i], "frames")) =>
        EngineTotalFrames = LastGiven(text, "frames")
  /\ (\E i \in DOMAIN text : Gives(text[i], "loop")) =>
        EngineLoop = (LastGiven(text, "loop") # 0)

\* C24, as stated: the manifest of a clip is looked for first under the name of
\* the clip with its suffix replaced, then as manifest.txt in the directory of
\* the clip; the first one found is the one in effect after the load, and the
\* defaults with the frame count estimated from the file size are in effect
\* only when neither exists.
C24_ManifestResolution ==
  LoadedClip # 0 =>
    LET clip == card[LoadedClip]
    IN IF clip.hasManifest THEN TextInEffect(clip.manifest)
       ELSE IF clip.hasGeneric THEN TextInEffect(clip.generic)
       ELSE /\ EngineFps = 15 /\ EngineLoop
            /\ EngineTotalFrames = clip.size \div (FrameWidth * FrameHeight * 2)

(***************************************************************************)
(* Properties of the capture (SpecCapture).                                *)
(***************************************************************************)
\* C22, as stated: recordWhileHolding returns false in each of three cases,
\* the hold released, the buffer full (audioDataSize = audioBufferSize), the
\* maximum duration elapsed, and true in every other case; so a call that
\* returned true found room in the buffer.
C22_PumpReturnsFalse ==
  \A i \in DOMAIN log :
    log[i].op = "recordWhileHolding.return" =>
      /\ log[i].a = 0 <=> log[i].m \in {"released", "max time", "full"}
      /\ log[i].a = 1 => (audioDataSize < audioBufferSize \/ LogHas("i2s_read"))

\* the calls of malloc in this tick
Mallocs == { i \in DOMAIN log : log[i].op = "malloc" }

\* C23, as stated: when the allocation of the capture buffer fails at the
\* start of a capture, it is tried again exactly once, for a smaller size; the
\* capture is given up only if the second attempt fails as well, and then no
\* buffer is held and no capture is on.
C23_AllocationRetriedOnce ==
  \A i \in Mallocs :
    (log[i].m = "failed" /\ \A j \in Mallocs : i <= j) =>
      /\ Cardinality(Mallocs) = 2
      /\ \A j \in Mallocs : j # i => log[j].a < log[i].a
      /\ (\A j \in Mallocs : log[j].m = "failed") <=> (audioBuffer = 0 /\ ~isRecording)

(***************************************************************************)
(* Properties of the firmware without WiFi and after failures (Spec).      *)
(***************************************************************************)
\* this tick began with a touch while WiFi was not connected
OfflineTouch == log # << >> /\ log[1].op = "touch" /\ log[1].m = "offline"

\* C25: a touch that begins while WiFi is not connected starts no capture:
\* the bus is not reconfigured, no buffer is allocated, no connection is
\* opened and isRecording stays false; with clips on the card a random
\* expression is started in that tick and plays unless its file cannot be
\* opened.  The loop then renders its frames: no tick that ran the
\* frame-interval check ends with a playing clip whose next frame is overdue.
C25_OfflineTouchPlaysExpression ==
  /\ OfflineTouch =>
       /\ \A i \in DOMAIN log :
            log[i].op \notin {"i2s_driver_uninstall", "i2s_driver_install", "i2s_set_pin",
                              "i2s_read", "malloc", "client.connect", "startRecording"}
       /\ ~isRecording /\ ~isTouching /\ audioBuffer = 0
       /\ LogHas("playRandomExpression")
       /\ (expressionsLoaded /\ numExpressions > 0) =>
            /\ LogHas("startExpression")
            /\ isPlayingExpression \/ log[LastOf("startExpression")].m = "failed"
  /\ (pc = "loop" /\ isPlayingExpression /\ LogHas("update expression")) =>
       Elapsed(now, lastFrameTime) < MS_PER_SECOND \div exprFps

\* an offline touch has started a clip, which is at its first frame
C25_Witness ==
  /\ OfflineTouch
  /\ LogHas("startExpression")
  /\ log[LastOf("startExpression")].m = "ok"
  /\ isPlayingExpression /\ exprCurrentFrame = 0
  /\ LogHas("update expression")

\* no hold, no capture, no response playback, and loop() is running
Idle == pc = "loop" /\ ~isTouching /\ ~isRecording /\ ~isPlaying

\* C26: whatever failures occur (allocation of the capture buffer, a capture
\* too short, a refused connection, a response that does not arrive, a clip
\* read that falls short), once the touch pin has been found released the
\* firmware gets back to Idle; a capture buffer is held only while a capture
\* is on; and a touch with WiFi connected calls startRecording again, which
\* starts a capture unless the allocation fails.
C26_ReturnsToIdle ==
  /\ ~touchPin ~> Idle
  /\ [](pc = "loop" /\ ~touchPin => Idle)
  /\ [](Idle => audioBuffer = 0)
  /\ []((log # << >> /\ log[1].op = "touch" /\ log[1].m = "wifi") =>
          /\ LogHas("startRecording") /\ LogHas("malloc")
          /\ isRecording <=> log[LastOf("malloc")].m = "ok")

\* the tick of a release whose upload was refused by the server has ended in
\* Idle with the buffer freed
C26_Witness ==
  /\ Idle
  /\ log # << >> /\ log[1].op = "release"
  /\ ConnectFailed
  /\ audioBuffer = 0

(***************************************************************************)
(* Properties of the frame function (SpecEngine).                          *)
(***************************************************************************)
\* the seeks of the call entered at event e
SeeksOf(e) == { k \in (e + 1) .. (ReturnOf(e) - 1) : log[k].op = "File.seek" }

\* C27: a call of the frame function on a playing clip declares the end of
\* the clip if and only if (totalFrames > 0 and frame index >= totalFrames) or
\* (read position >= file size): it then returns "finished" without a read
\* when the clip is played once and rewinds when it loops.  So a frame count
\* below the real one ends or wraps the clip after totalFrames frames, a
\* count above it or 0 at the end of the file; and the reads of a frame begin
\* at a position inside the file and take no more than what is left of it.
C27_EndOfClip ==
  \A e \in DOMAIN log :
    (log[e].op \in EntryOps /\ log[e + 1].op = "frame.state") =>
      LET frame == log[e].a
          pos == log[e].b
          totalFrames == log[e + 1].a
          size == log[e + 1].b
          end == (totalFrames > 0 /\ frame >= totalFrames) \/ pos >= size
          first == IF SeeksOf(e) # {} THEN 0 ELSE pos
      IN /\ log[e + 1].m = "once" => (log[ReturnOf(e)].m = "finished" <=> end)
         /\ log[e + 1].m = "loop" => (SeeksOf(e) # {} <=> end)
         /\ (end /\ log[e + 1].m = "once") => ReadsOf(e) = {}
         /\ ReadsOf(e) # {} => (first < size /\ first + BytesRead(ReadsOf(e)) <= size)

\* a looping clip of two frames whose manifest counts one has been rewound
\* after its first frame, with the second frame of the file unread
C27_Witness ==
  \E e \in DOMAIN log :
    /\ log[e].op \in EntryOps /\ log[e + 1].op = "frame.state"
    /\ log[e].a = 1 /\ log[e + 1].a = 1
    /\ log[e].b < log[e + 1].b
    /\ \E k \in SeeksOf(e) : log[k].m = "count"
    /\ ReadsOf(e) # {}

\* the reads and the display writes of the call entered at event e, in the
\* order of the call
TransfersOf(e) ==
  SelectSeq(SubSeq(log, e + 1, ReturnOf(e) - 1),
            LAMBDA ev : ev.op \in {"File.read", "tft.pushImage"})

\* C28: within a call of the frame function the chunks are read and drawn one
\* at a time: read k (k = 0, 1, ...) is followed at once by the display write
\* of its lines at vertical offset k * linesPerChunk, before read k + 1 is
\* issued; a read that falls short is the last transfer of the call; and the
\* frame index has gone up by one exactly when the call returned true, which
\* it does after the write of the last chunk, the chunk that reaches the
\* height of the frame.
C28_ChunkByChunk ==
  \A e \in DOMAIN log :
    log[e].op \in EntryOps =>
      LET tr == TransfersOf(e)
          r == ReturnOf(e)
      IN /\ \A i \in DOMAIN tr :
              IF i % 2 = 1
              THEN /\ tr[i].op = "File.read"
                   /\ tr[i].b = tr[i].a => (i < Len(tr) /\ tr[i + 1].op = "tft.pushImage")
                   /\ tr[i].b # tr[i].a => i = Len(tr)
              ELSE /\ tr[i].op = "tft.pushImage"
                   /\ tr[i].a = (i \div 2 - 1) * LinesPerChunk
                   /\ tr[i].b * FrameWidth * 2 = tr[i - 1].a
         /\ log[r].a = 1 <=>
              /\ tr # << >>
              /\ tr[Len(tr)].op = "tft.pushImage"
              /\ tr[Len(tr)].a + tr[Len(tr)].b = FrameHeight
         /\ r = Len(log) =>
              IF log[r].a = 1
              THEN EngineFrame = (IF SeeksOf(e) # {} THEN 0 ELSE log[e].a) + 1
              ELSE EngineFrame <= log[e].a

\* a frame of 320 lines has been drawn in 32 chunks and the frame index has
\* gone from 0 to 1
C28_Witness ==
  \E e \in DOMAIN log :
    /\ log[e].op \in EntryOps /\ log[e].a = 0
    /\ ReturnOf(e) = Len(log) /\ log[ReturnOf(e)].a = 1
    /\ Len(TransfersOf(e)) = 2 * ((FrameHeight + LinesPerChunk - 1) \div LinesPerChunk)
    /\ FrameHeight = 320
    /\ EngineFrame = 1

(***************************************************************************)
(* Properties of the upload and of the streaming loop (SpecCapture).       *)
(***************************************************************************)
\* the writes of captured bytes to the connection in this tick
AudioWrites == { k \in DOMAIN log : log[k].op = "client.write" }

\* C29: the captured bytes go to the connection in consecutive writes of at
\* most 1024 bytes each, which cover the bytes 0 .. audioDataSize - 1 once and
\* in order, all of them after the part header and before the footer; the
\* capture buffer is freed after the footer, and it has been freed whenever a
\* byte of the response is read.
C29_UploadInBoundedWrites ==
  /\ \A k \in AudioWrites :
       /\ log[k].b \in 1 .. 1024
       /\ log[k].a + log[k].b <= audioDataSize
       /\ IF k - 1 \in AudioWrites
          THEN log[k].a = log[k - 1].a + log[k - 1].b
          ELSE log[k].a = 0 /\ log[k - 1].op = "client.print" /\ log[k - 1].m = "part header"
       /\ IF k + 1 \in AudioWrites
          THEN log[k].b = 1024
          ELSE /\ log[k].a + log[k].b = audioDataSize
               /\ log[k + 1].op = "client.print" /\ log[k + 1].m = "part footer"
               /\ log[k + 2].op = "free"
  /\ \A i \in DOMAIN log :
       log[i].op \in {"client.readStringUntil", "client.read", "client.available"} =>
         /\ audioBuffer = 0
         /\ \A k \in DOMAIN log : log[k].op \in {"client.write", "client.print", "free"} => k < i
  /\ pc \in {"headers", "stream"} => audioBuffer = 0 /\ heap = << >>

\* a capture of 4096 bytes has gone out in four writes, the buffer is freed and
\* the wait for the response has begun
C29_Witness ==
  /\ Cardinality(AudioWrites) = 4
  /\ audioDataSize = 4096
  /\ pc = "headers"
  /\ audioBuffer = 0

\* the calls of the frame function, the reads from the connection and the
\* writes to the speaker in this iteration
FrameCallsOf == { i \in DOMAIN log : log[i].op \in EntryOps }
StreamReads == { i \in DOMAIN log : log[i].op = "client.read" }
SpeakerWrites == { i \in DOMAIN log : log[i].op = "i2s_write" }

\* C30, as stated: every iteration of the streaming loop calls the frame
\* function at most once, and only when the frame interval 1000 / fps has
\* passed since the frame before; it hands at most one chunk of at most 2048
\* bytes to the speaker, the chunk it has just read; and the bytes handed to
\* the speaker are the bytes of the response body and no others.
C30_StreamingLoop ==
  /\ [](sketch = "microbot_esp32" /\ (pc = "stream" \/ LogHas("stream end")) =>
          /\ Cardinality(FrameCallsOf) <= 1
          /\ Cardinality(StreamReads) <= 1
          /\ Cardinality(SpeakerWrites) <= 1
          /\ \A k \in StreamReads :
               /\ log[k].a \in 1 .. 2048
               /\ log[k + 1].op = "i2s_write" /\ log[k + 1].a = log[k].a
               /\ log[k + 1].m = "PlaybackActive"
               /\ log[k].b = 0
          /\ \A k \in SpeakerWrites : k - 1 \in StreamReads)
  /\ [][(pc = "stream" /\ FrameCallsOf' # {}) =>
          (isPlayingExpression
           /\ Elapsed(now, lastFrameTime) + log'[1].a >= MS_PER_SECOND \div exprFps)]_vars

(***************************************************************************)
(* Properties of the resumption of the Expression in the upload and        *)
(* response cycle (Spec).                                                  *)
(***************************************************************************)
PositionsOf(op) == { i \in DOMAIN log : log[i].op = op }

\* the card has clips to play
HasClips == expressionsLoaded /\ numExpressions > 0

\* C31, as stated: once the upload is flushed and the capture buffer freed,
\* the Expression is resumed before the response headers are waited for: with
\* clips on the card, playRandomExpression has been called when the wait for
\* the headers begins, and an Expression plays while they are awaited.
C31_ResumedBeforeHeaders ==
  (sketch = "microbot_esp32" /\ pc = "headers" /\ HasClips) =>
    (isPlayingExpression \/ LogHas("playRandomExpression"))

\* C31, amended: the Expression is resumed after the response headers have
\* been scanned and before the first byte of the body is read.  While the
\* headers are awaited the capture buffer is free, no Expression plays and the
\* frame function is not called; the handler that ends the wait calls
\* playRandomExpression once, after the last header line it reads and before
\* the speaker is set up, the body read or the connection stopped.
C31_ResumedAfterHeaders ==
  /\ (sketch = "microbot_esp32" /\ pc = "headers") =>
        /\ audioBuffer = 0
        /\ ~isPlayingExpression
        /\ ~LogHas("playRandomExpression") /\ ~LogHas("playExpressionFrame")
  /\ (sketch = "microbot_esp32" /\ LogHas("millis") /\ pc # "headers"
      /\ (LogHas("headers end") \/ LogHas("client.readStringUntil"))) =>
        /\ LogHas("playRandomExpression")
        /\ \A p \in PositionsOf("playRandomExpression") :
             /\ \A k \in PositionsOf("client.readStringUntil") \cup PositionsOf("headers end") :
                  k < p
             /\ p = FirstOf("playRandomExpression") =>
                  \A k \in PositionsOf("i2s_driver_uninstall") \cup PositionsOf("client.read")
                            \cup PositionsOf("client.stop") : p < k
             /\ p # FirstOf("playRandomExpression") =>
                  \E k \in PositionsOf("client.stop") : k < p
        /\ (pc = "stream" /\ LogHas("startExpression")
            /\ log[LastOf("startExpression")].m = "ok") => isPlayingExpression

\* the wait has ended at the blank line, a clip was started and the body follows
C31_Witness ==
  /\ sketch = "microbot_esp32" /\ pc = "stream"
  /\ \E k \in PositionsOf("client.readStringUntil") : log[k].m = "blank"
  /\ LogHas("playRandomExpression") /\ LogHas("i2s_driver_install")
  /\ isPlayingExpression /\ exprCurrentFrame = 0 /\ audioBuffer = 0

(***************************************************************************)
(* Properties of the stop functions (SpecStop).                            *)
(***************************************************************************)
\* the handler was a direct call of stopExpression or unload
Stopped ==
  Len(log) = 1 /\ log[1].op = "call" /\ log[1].m \in {"stopExpression", "unload"}

\* what an engine holds: its file, its flags and the parameters of its clip
EngineState ==
  << exprFile, isPlayingExpression, exprCurrentFrame, exprFps, exprTotalFrames, exprLoop,
     currentExpressionIndex, player >>

\* C32: stopExpression / unload, called in any state of the engine (never
\* loaded, playing, finished, after a failed read), leaves the engine not
\* playing, with its file closed and frame index 0; called again right after,
\* it changes nothing of the engine.
C32_StopFromAnyState ==
  /\ [](Stopped => (~EnginePlaying /\ ~EngineOpen /\ EngineFrame = 0 /\ EnginePos = 0))
  /\ [][(Stopped /\ Stopped') => (EngineState' = EngineState)]_vars

\* unload was called on a player that had stopped playing with its file open:
\* a clip played once that has finished
C32_Witness ==
  /\ Stopped /\ sketch = "expression_test"
  /\ log[1].a = 0 /\ log[1].b = 1
  /\ ~player.isPlaying /\ ~player.binFile.open /\ player.currentFrame = 0

(***************************************************************************)
(* Properties of the playback of the response (Spec).                      *)
(***************************************************************************)
\* what a handler logs when it takes the touch input or works on a capture
CaptureOps == {"touch", "release", "hold", "startRecording", "malloc", "i2s_read", "store"}

\* what a handler logs when it changes the configuration of the bus
BusOps == {"i2s_driver_uninstall", "i2s_driver_install", "i2s_set_pin"}

\* C33: the response is played inside the blocking call only.  isPlaying is
\* false whenever loop() is at a tick boundary and true only in the streaming
\* loop; an iteration of that loop does not sample the touch input, so the
\* touch flags keep their values, no capture is started, no buffer allocated
\* and the bus stays in the playback configuration until the loop has ended;
\* every write to the speaker is made in that configuration.
C33_PlaybackConfined ==
  /\ [](sketch = "microbot_esp32" =>
          /\ (pc = "loop" => ~isPlaying)
          /\ (isPlaying => (pc = "stream" /\ BusMode(i2s) = "PlaybackActive"
                            /\ ~isRecording /\ audioBuffer = 0)))
  /\ [][(sketch = "microbot_esp32" /\ pc = "stream") =>
          /\ touchPin' = touchPin /\ isTouching' = isTouching
          /\ ~isRecording' /\ audioBuffer' = 0
          /\ i2s' = i2s
          /\ \A i \in DOMAIN log' : log'[i].op \notin (CaptureOps \cup BusOps)]_vars

\* a chunk of the response is written to the speaker while the touch input,
\* held at its last sample, is left unsampled: no capture is on
C33_Witness ==
  /\ sketch = "microbot_esp32" /\ pc = "stream" /\ isPlaying
  /\ LogHas("i2s_write")
  /\ touchPin /\ ~isTouching /\ ~isRecording

(***************************************************************************)
(* Properties of the expression playback test (SpecExpression).            *)
(***************************************************************************)
\* the clip after the current one, in the cyclic order of the scan
NextIndex == (currentExpressionIndex + 1) % numExpressions

\* C34: in expression_test the index of the current clip stays within
\* 0 .. numExpressions - 1 while there are clips.  A debounced touch requests
\* clip (current + 1) mod numExpressions.  In a tick without a touch, a clip
\* is requested only when playFrame has returned false for a clip with
\* loop = false, and then it is that next clip, whose load follows; a clip
\* with loop = true is not replaced.
C34_CyclicOrder ==
  /\ [](sketch = "expression_test" /\ numExpressions > 0 =>
          currentExpressionIndex \in 0 .. (numExpressions - 1))
  /\ [][(sketch = "expression_test" /\ numExpressions > 0) =>
          LET requests == { i \in DOMAIN log' : log'[i].op = "playExpression" }
              ends == { i \in DOMAIN log' : log'[i].op = "displayFrame.return" /\ log'[i].a = 0 }
          IN /\ \A p \in requests : log'[p + 1].op = "load" /\ log'[p + 1].a = log'[p].a + 1
             /\ log'[1].op = "touch" =>
                  /\ log'[2].op = "playExpression" /\ log'[2].a = NextIndex
                  /\ currentExpressionIndex' \in {currentExpressionIndex, NextIndex}
             /\ log'[1].op = "no touch event" =>
                  /\ (ends # {} /\ ~player.loop) =>
                       \E p \in requests : /\ log'[p].a = NextIndex
                                           /\ \A r \in ends : r < p
                  /\ requests # {} => (ends # {} /\ ~player.loop /\ Cardinality(requests) = 1)
                  /\ player.loop => (requests = {} /\ currentExpressionIndex' = currentExpressionIndex
                                     /\ player'.binFile.clip = player.binFile.clip)
                  /\ currentExpressionIndex' \in {currentExpressionIndex, NextIndex}]_vars

\* the last clip of the card, played once, has finished without a touch and
\* the first clip was loaded after it
C34_Witness ==
  /\ sketch = "expression_test" /\ numExpressions = 4
  /\ log[1].op = "no touch event"
  /\ \E r \in DOMAIN log : log[r].op = "displayFrame.return" /\ log[r].a = 0 /\ log[r].m = "finished"
  /\ \E p \in DOMAIN log : log[p].op = "playExpression" /\ log[p].a = 0
  /\ currentExpressionIndex = 0 /\ player.isPlaying /\ player.binFile.clip = 1

(***************************************************************************)
(* Properties of the read position of the engines (SpecEngine).            *)
(***************************************************************************)
\* the bytes of one frame of the clip loaded
FrameSize == FrameWidth * FrameHeight * 2

\* C35: whenever the engine is playing between two calls of the frame
\* function, the read position of its file is frame index * (width * height
\* * 2): a call that succeeds has advanced it by one frame, and no call that
\* fails leaves a playing engine in the middle of a frame.
C35_PositionMatchesFrame ==
  (EnginePlaying /\ EngineOpen) => EnginePos = EngineFrame * FrameSize

(***************************************************************************)
(* Properties of the chunk buffer (SpecEngine).                            *)
(***************************************************************************)
\* the bytes the chunk buffer of the engine holds
ChunkCapacity == IF sketch = "expression_test" THEN PLAYER_CHUNK_SIZE ELSE EXPR_CHUNK_SIZE

\* C36: for every clip and manifest a load accepts, whatever width and height
\* it gives, each read of the frame function asks for no more bytes than the
\* chunk buffer holds, so no read writes past its end.
C36_ReadsFitChunkBuffer ==
  \A i \in DOMAIN log : log[i].op = "File.read" => log[i].a <= ChunkCapacity

(***************************************************************************)
(* Properties of the parameters a load leaves (SpecEngine).                *)
(***************************************************************************)
\* the manifest text that the load of clip c parses, << >> when it finds none
OwnText(c) ==
  IF card[c].hasManifest THEN card[c].manifest
  ELSE IF sketch = "expression_test" /\ card[c].hasGeneric THEN card[c].generic
  ELSE << >>

\* the load of clip c finds a manifest
HasOwnText(c) == card[c].hasManifest \/ (sketch = "expression_test" /\ card[c].hasGeneric)

\* C37: the parameters in effect after a load are those of the clip loaded
\* and of nothing else: whatever was loaded before, a key that the manifest
\* of the clip does not give has its default (width 240, height 320, fps 15,
\* loop true, no frame count), and without a manifest all have their defaults
\* with the frame count estimated from the size of the file.
C37_ParametersOfOwnClip ==
  LoadedClip # 0 =>
    LET text == OwnText(LoadedClip)
        absent(k) == ~\E i \in DOMAIN text : Gives(text[i], k)
    IN /\ absent("width") => FrameWidth = 240
       /\ absent("height") => FrameHeight = 320
       /\ absent("fps") => EngineFps = 15
       /\ absent("loop") => EngineLoop
       /\ absent("frames") =>
            EngineTotalFrames = IF HasOwnText(LoadedClip) THEN 0
                                ELSE card[LoadedClip].size \div (FrameWidth * FrameHeight * 2)

(***************************************************************************)
(* Properties of the start of a capture (Spec).                            *)
(***************************************************************************)
\* C38: a capture begins only on a transition from not-held to held: in a
\* step in which a recording starts, the reading of TOUCH_PIN before the one
\* that starts it was not-held.  A hold that lasts beyond the maximum
\* duration and the cycle after it starts no second capture.
C38_CaptureOnPressOnly ==
  [][(~isRecording /\ isRecording') => (~touchPin /\ touchPin')]_vars

(***************************************************************************)
(* The timing checks with millis() as the 32-bit counter it is.  TLC has   *)
(* no integers beyond 2^31 - 1, so a reading of millis() is kept as its    *)
(* two 16-bit halves << high, low >>, and the arithmetic of unsigned long  *)
(* is carried out half by half.  The intervals are all below 2^16.         *)
(***************************************************************************)
Half == 2 ^ 16

\* t + ms in unsigned long
add32(t, ms) == << (t[1] + (t[2] + ms) \div Half) % Half, (t[2] + ms) % Half >>

\* t - since in unsigned long
sub32(t, since) ==
  IF t[2] >= since[2]
  THEN << (t[1] - since[1] + Half) % Half, t[2] - since[2] >>
  ELSE << (t[1] - since[1] - 1 + Half) % Half, t[2] - since[2] + Half >>

\* a < b for two unsigned long
lt32(a, b) == a[1] < b[1] \/ (a[1] = b[1] /\ a[2] < b[2])

\* d >= ms and d > ms for an unsigned long d and an interval below 2^16
atLeast32(d, ms) == d[1] > 0 \/ d[2] >= ms
moreThan32(d, ms) == d[1] > 0 \/ d[2] > ms

\* unsigned long timeout = millis() + 30000
ReceiveDeadline(t) == add32(t, RECEIVE_TIMEOUT_MS)
\* millis() < timeout
BeforeDeadline(t, deadline) == lt32(t, deadline)
\* now - lastFrameTime >= frameInterval
FrameDue(t, last, fps) == atLeast32(sub32(t, last), MS_PER_SECOND \div fps)
\* now - lastIdleExprTime > IDLE_EXPRESSION_INTERVAL
IdleDue(t, last) == moreThan32(sub32(t, last), IDLE_EXPRESSION_INTERVAL)
\* millis() - touchStartTime >= MAX_RECORD_TIME_MS
MaxTimeReached(t, start) == atLeast32(sub32(t, start), MAX_RECORD_TIME_MS)

\* the longest wait that is followed, in ms
MaxWait == 40000
\* the readings of millis() at which a wait starts: around the wrap, and far from it
WrapStarts ==
  { sub32(<<0, 0>>, <<0, ms>>) : ms \in {0, 1, 66, 10000, 29000, 30000, 35000, 45000} }
    \cup { <<1, 0>>, <<32768, 0>> }

Flag(b) == IF b THEN 1 ELSE 0

\* the four checks in state s at the reading t of millis(), ms after the wait started
Checks(s, t, ms) ==
  << Ev("millis", ms, 0, ""),
     Ev("millis() < timeout", Flag(BeforeDeadline(t, s.timeout)), 0, ""),
     Ev("frame due", Flag(FrameDue(t, s.lastFrameTime, EXPR_FPS)), 0, ""),
     Ev("idle due", Flag(IdleDue(t, s.lastIdleExprTime)), 0, ""),
     Ev("max time", Flag(MaxTimeReached(t, s.touchStartTime)), 0, "") >>

\* a wait starts at t0: the deadline is set and the time stamps are taken
Armed(s, t0) ==
  LET u == [s EXCEPT !.now = t0, !.timeout = ReceiveDeadline(t0), !.lastFrameTime = t0,
                     !.lastIdleExprTime = t0, !.touchStartTime = t0]
  IN [u EXCEPT !.log = Checks(u, t0, 0)]

InitWrap == \E t0 \in WrapStarts : StartAt(Armed(Boot(NoCard), t0))

\* an iteration of a polling loop, a frame interval after the one before:
\* millis() is read again and the checks are made
wrap_poll ==
  \E dt \in { MS_PER_SECOND \div EXPR_FPS } :
    /\ log[1].a + dt <= MaxWait
    /\ now' = add32(now, dt)
    /\ log' = Checks(S, add32(now, dt), log[1].a + dt)
    /\ UNCHANGED << touchPin, pc, audioBuffer, audioBufferSize, audioDataSize, heap,
                 isRecording, isPlaying, isPlayingExpression, isTouching,
                 touchStartTime, numExpressions, expressionsLoaded,
                 currentExpressionIndex, exprFile, exprTotalFrames, exprCurrentFrame,
                 exprFps, exprLoop, lastFrameTime, lastIdleExprTime, i2s, client,
                 timeout, contentLength2, card, sketch, recordStartTime, isProcessing,
                 wasPressed, lastTouchTime, player >>

\* an iteration that follows a blocking call
wrap_block ==
  \E dt \in { TimeStep } :
    /\ log[1].a + dt <= MaxWait
    /\ now' = add32(now, dt)
    /\ log' = Checks(S, add32(now, dt), log[1].a + dt)
    /\ UNCHANGED << touchPin, pc, audioBuffer, audioBufferSize, audioDataSize, heap,
                 isRecording, isPlaying, isPlayingExpression, isTouching,
                 touchStartTime, numExpressions, expressionsLoaded,
                 currentExpressionIndex, exprFile, exprTotalFrames, exprCurrentFrame,
                 exprFps, exprLoop, lastFrameTime, lastIdleExprTime, i2s, client,
                 timeout, contentLength2, card, sketch, recordStartTime, isProcessing,
                 wasPressed, lastTouchTime, player >>

NextWrap ==
  \/ wrap_poll
  \/ wrap_block

SpecWrap == InitWrap /\ [][NextWrap]_vars

(***************************************************************************)
(* Properties of the timing checks across the wrap of millis() (SpecWrap). *)
(***************************************************************************)
Waited == log[1].a
Checked(op) == \E i \in DOMAIN log : log[i].op = op /\ log[i].a = 1

\* C39: the timing checks give the same answers when millis() wraps during
\* the wait: the receive deadline is open as long as less than 30 000 ms
\* have been waited and closed from then on, and the frame, idle and
\* maximum-duration checks fire exactly when their interval has elapsed.
C39_ChecksAcrossWrap ==
  /\ Checked("millis() < timeout") <=> Waited < RECEIVE_TIMEOUT_MS
  /\ Checked("frame due") <=> Waited >= MS_PER_SECOND \div EXPR_FPS
  /\ Checked("idle due") <=> Waited > IDLE_EXPRESSION_INTERVAL
  /\ Checked("max time") <=> Waited >= MAX_RECORD_TIME_MS

(***************************************************************************)
(* Properties of the earliest unrequested playback (Spec).                 *)
(***************************************************************************)
\* C40: the idle logic starts no playback sooner than IDLE_EXPRESSION_INTERVAL
\* after the last activity: a tick whose idle check starts a clip is one in
\* which more than the interval had passed since lastIdleExprTime.
C40_IdleWaitsInterval ==
  (sketch = "microbot_esp32" /\ LogHas("idle check") /\ StartedByIdleCheck("ok"))
    => LogHas("idle interval")

=============================================================================
